---- MODULE Spec2Model ----
(***************************************************************************)
(* bomkit: snapshot ingestion (bomkit/ingest/snapshot_ingest.py), the      *)
(* Postgres store behind it (bomkit/ingest/supabase_client.py) and the     *)
(* snapshot diff engine (bomkit/diff/snapshot_diff.py).                    *)
(*                                                                         *)
(* Conventions.                                                            *)
(*  - A Python str is a sequence of one-character strings, so that         *)
(*    lower(), split() and SequenceMatcher act on characters.              *)
(*  - An Optional value is <<>> (None) or <<v>>.                           *)
(*  - A dict is a function from its keys; {} is the empty function.        *)
(*  - A float similarity is an exact fraction <<numerator, denominator>>.  *)
(*  - uuid4() is the next unused index of the table the row goes to.       *)
(*  - sha256 over the canonical JSON text is taken as injective: a         *)
(*    checksum is the canonical payload itself.                            *)
(***************************************************************************)
EXTENDS Integers, Sequences, FiniteSets, TLC

(***************************************************************************)
(* Bounds of the model.                                                    *)
(***************************************************************************)
MaxRows == 3
MaxFaultRows == 2
MaxIngest == 2

None == <<>>
Some(v) == <<v>>
EmptyMap == [k \in {} |-> <<>>]

(***************************************************************************)
(* Text.                                                                   *)
(***************************************************************************)
\* The characters of an attribute key (the model keeps keys as strings).
Spell ==
    [
     manufacturer_part_number |-> <<"m", "a", "n", "u", "f", "a", "c", "t", "u", "r", "e", "r", "_", "p", "a", "r", "t", "_", "n", "u", "m", "b", "e", "r">>,
     mpn |-> <<"m", "p", "n">>,
     mfr_part_number |-> <<"m", "f", "r", "_", "p", "a", "r", "t", "_", "n", "u", "m", "b", "e", "r">>,
     part_number |-> <<"p", "a", "r", "t", "_", "n", "u", "m", "b", "e", "r">>,
     vendor_part_number |-> <<"v", "e", "n", "d", "o", "r", "_", "p", "a", "r", "t", "_", "n", "u", "m", "b", "e", "r">>,
     manufacturer |-> <<"m", "a", "n", "u", "f", "a", "c", "t", "u", "r", "e", "r">>,
     mfr |-> <<"m", "f", "r">>,
     vendor |-> <<"v", "e", "n", "d", "o", "r">>,
     brand |-> <<"b", "r", "a", "n", "d">>,
     reference_designator |-> <<"r", "e", "f", "e", "r", "e", "n", "c", "e", "_", "d", "e", "s", "i", "g", "n", "a", "t", "o", "r">>,
     refdes |-> <<"r", "e", "f", "d", "e", "s">>,
     designator |-> <<"d", "e", "s", "i", "g", "n", "a", "t", "o", "r">>,
     value |-> <<"v", "a", "l", "u", "e">>,
     tolerance |-> <<"t", "o", "l", "e", "r", "a", "n", "c", "e">>,
     package |-> <<"p", "a", "c", "k", "a", "g", "e">>,
     footprint |-> <<"f", "o", "o", "t", "p", "r", "i", "n", "t">>,
     material |-> <<"m", "a", "t", "e", "r", "i", "a", "l">>,
     voltage_rating |-> <<"v", "o", "l", "t", "a", "g", "e", "_", "r", "a", "t", "i", "n", "g">>,
     current_rating |-> <<"c", "u", "r", "r", "e", "n", "t", "_", "r", "a", "t", "i", "n", "g">>,
     power_rating |-> <<"p", "o", "w", "e", "r", "_", "r", "a", "t", "i", "n", "g">>,
     temperature_rating |-> <<"t", "e", "m", "p", "e", "r", "a", "t", "u", "r", "e", "_", "r", "a", "t", "i", "n", "g">>,
     description |-> <<"d", "e", "s", "c", "r", "i", "p", "t", "i", "o", "n">>,
     unit |-> <<"u", "n", "i", "t">>,
     row_index |-> <<"r", "o", "w", "_", "i", "n", "d", "e", "x">>,
     source_row |-> <<"s", "o", "u", "r", "c", "e", "_", "r", "o", "w">>,
     raw_row |-> <<"r", "a", "w", "_", "r", "o", "w">>,
     normalized_refdes |-> <<"n", "o", "r", "m", "a", "l", "i", "z", "e", "d", "_", "r", "e", "f", "d", "e", "s">>,
     original_refdes |-> <<"o", "r", "i", "g", "i", "n", "a", "l", "_", "r", "e", "f", "d", "e", "s">>,
     csv_row_number |-> <<"c", "s", "v", "_", "r", "o", "w", "_", "n", "u", "m", "b", "e", "r">>,
     import_timestamp |-> <<"i", "m", "p", "o", "r", "t", "_", "t", "i", "m", "e", "s", "t", "a", "m", "p">>,
     source_file |-> <<"s", "o", "u", "r", "c", "e", "_", "f", "i", "l", "e">>,
     row_indices |-> <<"r", "o", "w", "_", "i", "n", "d", "i", "c", "e", "s">>,
     notes |-> <<"n", "o", "t", "e", "s">>,
     color |-> <<"c", "o", "l", "o", "r">>,
     MPN |-> <<"M", "P", "N">>,
     Package_Size |-> <<"P", "a", "c", "k", "a", "g", "e", "_", "S", "i", "z", "e">>
    ]

\* The characters the model's keys are written in, by code point.
CodePoints ==
    <<" ", "0", "1", "2", "3", "4", "5", "6", "7", "8", "9", "A", "B", "C",
     "D", "E", "F", "G", "H", "I", "J", "K", "L", "M", "N", "O", "P", "Q",
     "R", "S", "T", "U", "V", "W", "X", "Y", "Z", "_", "a", "b", "c", "d",
     "e", "f", "g", "h", "i", "j", "k", "l", "m", "n", "o", "p", "q", "r",
     "s", "t", "u", "v", "w", "x", "y", "z">>

Ord(c) == CHOOSE i \in 1..Len(CodePoints) : CodePoints[i] = c

\* s < t on two Python strs.
RECURSIVE StrLess(_, _)
StrLess(s, t) ==
    IF t = <<>> THEN FALSE
    ELSE IF s = <<>> THEN TRUE
    ELSE IF Ord(Head(s)) # Ord(Head(t)) THEN Ord(Head(s)) < Ord(Head(t))
    ELSE StrLess(Tail(s), Tail(t))

\* sorted(keys)
RECURSIVE SortKeys(_)
SortKeys(keys) ==
    IF keys = {} THEN <<>>
    ELSE LET least == CHOOSE k \in keys :
                        \A other \in keys \ {k} : StrLess(Spell[k], Spell[other])
         IN  <<least>> \o SortKeys(keys \ {least})

Lower(s) ==
    [i \in 1..Len(s) |->
        CASE s[i] = "R" -> "r"
          [] s[i] = "C" -> "c"
          [] s[i] = "D" -> "d"
          [] s[i] = "K" -> "k"
          [] s[i] = "A" -> "a"
          [] s[i] = "B" -> "b"
          [] s[i] = "M" -> "m"
          [] s[i] = "N" -> "n"
          [] s[i] = "P" -> "p"
          [] s[i] = "S" -> "s"
          [] OTHER -> s[i]]

\* difflib.SequenceMatcher.find_longest_match without junk: the longest block
\* a[i..i+k-1] = b[j..j+k-1] inside a[alo..ahi], b[blo..bhi] (inclusive),
\* the earliest in a and then the earliest in b among the longest.
BlockAt(a, b, i, j, k) == \A d \in 0..(k - 1) : a[i + d] = b[j + d]

Blocks(a, alo, ahi, b, blo, bhi) ==
    {t \in (alo..ahi) \X (blo..bhi) \X (1..(ahi - alo + 1)) :
        /\ t[1] + t[3] - 1 <= ahi
        /\ t[2] + t[3] - 1 <= bhi
        /\ BlockAt(a, b, t[1], t[2], t[3])}

LongestMatch(a, alo, ahi, b, blo, bhi) ==
    LET bs == Blocks(a, alo, ahi, b, blo, bhi)
    IN  CHOOSE t \in bs :
            \A u \in bs :
                \/ u[3] < t[3]
                \/ u[3] = t[3] /\ u[1] > t[1]
                \/ u[3] = t[3] /\ u[1] = t[1] /\ u[2] >= t[2]

\* Sum of the sizes of SequenceMatcher.get_matching_blocks().
RECURSIVE MatchSize(_, _, _, _, _, _)
MatchSize(a, alo, ahi, b, blo, bhi) ==
    IF alo > ahi \/ blo > bhi \/ Blocks(a, alo, ahi, b, blo, bhi) = {}
    THEN 0
    ELSE LET t == LongestMatch(a, alo, ahi, b, blo, bhi)
         IN  t[3] + MatchSize(a, alo, t[1] - 1, b, blo, t[2] - 1)
                  + MatchSize(a, t[1] + t[3], ahi, b, t[2] + t[3], bhi)

\* SequenceMatcher(None, a, b).ratio() = 2.0 * matches / (len(a) + len(b)).
Ratio(a, b) == <<2 * MatchSize(a, 1, Len(a), b, 1, Len(b)), Len(a) + Len(b)>>

\* Fractions.
RAdd(x, y) == <<x[1] * y[2] + y[1] * x[2], x[2] * y[2]>>
RMul(x, y) == <<x[1] * y[1], x[2] * y[2]>>
RGeq(x, y) == x[1] * y[2] >= y[1] * x[2]
RGt(x, y) == x[1] * y[2] > y[1] * x[2]
REq(x, y) == x[1] * y[2] = y[1] * x[2]

_string_similarity(a, b) ==
    IF a = <<>> \/ b = <<>> THEN <<0, 1>> ELSE Ratio(Lower(a), Lower(b))

\* One key of _jsonb_similarity's loop: what it adds to matches. Every value
\* of a part's attributes and of a usage's context is a str in this model.
KeyMatch(attrs1, attrs2, key) ==
    IF key \notin DOMAIN attrs1 \/ key \notin DOMAIN attrs2 THEN <<0, 1>>
    ELSE IF Lower(attrs1[key]) = Lower(attrs2[key]) THEN <<1, 1>>
    ELSE RMul(_string_similarity(attrs1[key], attrs2[key]), <<8, 10>>)

RECURSIVE SumMatches(_, _, _)
SumMatches(attrs1, attrs2, keys) ==
    IF keys = {} THEN <<0, 1>>
    ELSE LET k == CHOOSE x \in keys : TRUE
         IN  RAdd(KeyMatch(attrs1, attrs2, k), SumMatches(attrs1, attrs2, keys \ {k}))

_jsonb_similarity(attrs1, attrs2) ==
    IF DOMAIN attrs1 = {} /\ DOMAIN attrs2 = {} THEN <<1, 1>>
    ELSE IF DOMAIN attrs1 = {} \/ DOMAIN attrs2 = {} THEN <<0, 1>>
    ELSE LET all_keys == DOMAIN attrs1 \cup DOMAIN attrs2
         IN  RMul(SumMatches(attrs1, attrs2, all_keys), <<1, Cardinality(all_keys)>>)

\* find_similar_parts: (name_sim * 0.6) + (attr_sim * 0.4).
combined_score(part_name, attributes, candidate) ==
    RAdd(RMul(_string_similarity(part_name, candidate.name), <<6, 10>>),
         RMul(_jsonb_similarity(attributes, candidate.attributes), <<4, 10>>))

(***************************************************************************)
(* snapshot_ingest.py: pure helpers.                                       *)
(***************************************************************************)
NON_SEMANTIC_ATTRIBUTE_KEYS ==
    {"row_index", "source_row", "raw_row", "normalized_refdes",
     "original_refdes", "csv_row_number", "import_timestamp", "source_file"}

Restrict(f, keys) == [k \in (DOMAIN f \cap keys) |-> f[k]]

\* dict.get(key) is truthy: the key is present with a non-empty str.
Truthy(f, key) == key \in DOMAIN f /\ f[key] # <<>>

\* No filter at all: C13 tells it from _filter_semantic_attributes.
_filter_nothing(attributes) == attributes

_filter_semantic_attributes(attributes) ==
    Restrict(attributes, DOMAIN attributes \ NON_SEMANTIC_ATTRIBUTE_KEYS)

IsSpace(c) == c = " "

\* value.split(): the maximal runs of non-whitespace characters.
RECURSIVE Split(_, _, _)
Split(s, i, word) ==
    IF i > Len(s) THEN (IF word = <<>> THEN <<>> ELSE <<word>>)
    ELSE IF IsSpace(s[i])
         THEN (IF word = <<>> THEN <<>> ELSE <<word>>) \o Split(s, i + 1, <<>>)
         ELSE Split(s, i + 1, Append(word, s[i]))

RECURSIVE Join(_)
Join(words) ==
    IF words = <<>> THEN <<>>
    ELSE IF Len(words) = 1 THEN words[1]
    ELSE words[1] \o <<" ">> \o Join(Tail(words))

\* isinstance(value, str): in a snapshot item's attributes row_index is an
\* int and row_indices a list of ints; every other value is a str.
IsStrKey(key) == key \notin {"row_index", "row_indices"}

_canonicalize_for_checksum(key, value) ==
    IF IsStrKey(key) THEN Join(Split(value, 1, <<>>)) ELSE value

\* json.dumps of the payload without sort_keys: the attributes come out in
\* their insertion order. C14 tells it from json_dumps.
json_dumps_insertion_order(quantity, attrs, order) ==
    [quantity |-> quantity,
     attributes |-> [i \in 1..Len(order) |-> <<order[i], attrs[order[i]]>>]]

\* json.dumps(payload, sort_keys=True, default=str): the text, as the
\* quantity and the key/value pairs in the order they are written in. order
\* is the insertion order of the keys of attrs.
json_dumps(quantity, attrs, order) ==
    LET keys == SortKeys(DOMAIN attrs)
    IN  [quantity |-> quantity,
         attributes |-> [i \in 1..Len(keys) |-> <<keys[i], attrs[keys[i]]>>]]

IsSemanticKey(key) == key \notin NON_SEMANTIC_ATTRIBUTE_KEYS

\* _compute_checksum on a dict given as its map and the insertion order of
\* its keys; sha256 is injective here, the text stands for its digest.
ChecksumOf(quantity, attributes, order) ==
    LET semantic_attrs == _filter_semantic_attributes(attributes)
        canonical_attrs == [k \in DOMAIN semantic_attrs |->
                                _canonicalize_for_checksum(k, semantic_attrs[k])]
    IN  json_dumps(quantity, canonical_attrs, SelectSeq(order, IsSemanticKey))

\* The dicts of the ingestion are maps without an insertion order; they are
\* taken in sorted order.
_compute_checksum(quantity, attributes) ==
    ChecksumOf(quantity, attributes, SortKeys(DOMAIN attributes))

PART_ATTRIBUTE_KEYS ==
    {"value", "tolerance", "material", "package", "manufacturer",
     "manufacturer_part_number", "description", "unit"}

_extract_part_attributes(row) ==
    Restrict(row.attributes, {k \in PART_ATTRIBUTE_KEYS : Truthy(row.attributes, k)})

CONTEXT_KEYS == {"notes", "placement", "torque", "install_notes"}

_extract_bom_item_context(row) ==
    Restrict(row.context, {k \in CONTEXT_KEYS : Truthy(row.context, k)})

_extract_snapshot_attributes(row) ==
    IF Truthy(row.context, "reference_designator")
    THEN ("reference_designator" :> row.context["reference_designator"])
            @@ ("row_index" :> row.row_index)
    ELSE ("row_index" :> row.row_index)

(***************************************************************************)
(* supabase_client.py: the statements of each store method, on a view s of *)
(* the tables (the committed tables, or a transaction's view of them).     *)
(***************************************************************************)
EmptyStore ==
    [organizations |-> {},
     assemblies |-> <<>>,
     parts |-> <<>>,
     bom_items |-> <<>>,
     snapshots |-> <<>>,
     snapshot_items |-> <<>>]

get_or_create_organization(s, org_id) ==
    [s EXCEPT !.organizations = @ \cup {org_id}]

\* The lookup without "AND org_id = %s": C4 tells it from AssemblyById.
AssemblyById_any_org(s, org_id, assembly_id) ==
    {a \in 1..Len(s.assemblies) : a = assembly_id}

\* SELECT id FROM assemblies WHERE id = %s AND org_id = %s
AssemblyById(s, org_id, assembly_id) ==
    {a \in 1..Len(s.assemblies) : a = assembly_id /\ s.assemblies[a].org_id = org_id}

\* SELECT id FROM assemblies WHERE org_id = %s AND name = %s
AssemblyByName(s, org_id, assembly_name) ==
    {a \in 1..Len(s.assemblies) :
        s.assemblies[a].org_id = org_id /\ s.assemblies[a].name = assembly_name}

create_assembly(s, org_id, assembly_name) ==
    [s EXCEPT !.assemblies = Append(@, [org_id |-> org_id, name |-> assembly_name])]

\* Matching on the organization and the exact name alone: C9 tells it from
\* PartMatches.
PartMatches_by_name(s, org_id, part_name, attributes, similarity_threshold) ==
    {p \in 1..Len(s.parts) : s.parts[p].org_id = org_id /\ s.parts[p].name = part_name}

\* The (id, score) tuples of find_similar_parts before the sort.
PartMatches(s, org_id, part_name, attributes, similarity_threshold) ==
    {p \in 1..Len(s.parts) :
        /\ s.parts[p].org_id = org_id
        /\ RGeq(combined_score(part_name, attributes, s.parts[p]), similarity_threshold)}

\* The matches left in the order of the SELECT: C26 tells it from
\* find_similar_parts.
find_similar_parts_unsorted(s, org_id, part_name, attributes, similarity_threshold) ==
    PartMatches(s, org_id, part_name, attributes, similarity_threshold)

\* matches.sort(key=score, reverse=True) and then [0]: a match that no other
\* match outscores. The sort is stable and the SELECT has no ORDER BY, so
\* among equal scores the store's row order decides.
find_similar_parts(s, org_id, part_name, attributes, similarity_threshold) ==
    LET m == PartMatches(s, org_id, part_name, attributes, similarity_threshold)
    IN  {p \in m : \A q \in m :
            RGeq(combined_score(part_name, attributes, s.parts[p]),
                 combined_score(part_name, attributes, s.parts[q]))}

create_part(s, org_id, part_name, attributes) ==
    [s EXCEPT !.parts = Append(@, [org_id |-> org_id, name |-> part_name,
                                   attributes |-> attributes])]

\* Matching among the usages of the part in every assembly: C29 tells it
\* from BomItemMatches.
BomItemMatches_any_assembly(s, assembly_id, part_id, context, similarity_threshold) ==
    {u \in 1..Len(s.bom_items) :
        /\ s.bom_items[u].part_id = part_id
        /\ RGeq(_jsonb_similarity(context, s.bom_items[u].context), similarity_threshold)}

BomItemMatches(s, assembly_id, part_id, context, similarity_threshold) ==
    {u \in 1..Len(s.bom_items) :
        /\ s.bom_items[u].assembly_id = assembly_id
        /\ s.bom_items[u].part_id = part_id
        /\ RGeq(_jsonb_similarity(context, s.bom_items[u].context), similarity_threshold)}

find_similar_bom_items(s, assembly_id, part_id, context, similarity_threshold) ==
    LET m == BomItemMatches(s, assembly_id, part_id, context, similarity_threshold)
    IN  {u \in m : \A w \in m :
            RGeq(_jsonb_similarity(context, s.bom_items[u].context),
                 _jsonb_similarity(context, s.bom_items[w].context))}

create_bom_item(s, assembly_id, part_id, context) ==
    [s EXCEPT !.bom_items = Append(@, [assembly_id |-> assembly_id,
                                       part_id |-> part_id, context |-> context])]

\* A store that keeps one snapshot per assembly: C5 tells it from
\* create_snapshot.
create_snapshot_once(s, org_id, assembly_id) ==
    IF \E k \in 1..Len(s.snapshots) : s.snapshots[k].assembly_id = assembly_id
    THEN s
    ELSE [s EXCEPT !.snapshots = Append(@, [org_id |-> org_id,
                                            assembly_id |-> assembly_id])]

create_snapshot(s, org_id, assembly_id) ==
    [s EXCEPT !.snapshots = Append(@, [org_id |-> org_id, assembly_id |-> assembly_id])]

\* INSERT ... ON CONFLICT (snapshot_id, bom_item_id) DO UPDATE.
SelectSeq2(seq, snapshot_id, bom_item_id) ==
    {i \in 1..Len(seq) :
        seq[i].snapshot_id = snapshot_id /\ seq[i].bom_item_id = bom_item_id}

\* An upsert keyed by bom_item_id alone: C6 tells it from insert_snapshot_item.
insert_snapshot_item_by_usage(s, snapshot_id, bom_item_id, quantity, attributes, checksum) ==
    LET item == [snapshot_id |-> snapshot_id, bom_item_id |-> bom_item_id,
                 quantity |-> quantity, attributes |-> attributes,
                 checksum |-> checksum]
        hit == {i \in 1..Len(s.snapshot_items) :
                    s.snapshot_items[i].bom_item_id = bom_item_id}
    IN  IF hit = {}
        THEN [s EXCEPT !.snapshot_items = Append(@, item)]
        ELSE [s EXCEPT !.snapshot_items =
                [i \in 1..Len(@) |-> IF i \in hit THEN item ELSE @[i]]]

insert_snapshot_item(s, snapshot_id, bom_item_id, quantity, attributes, checksum) ==
    LET item == [snapshot_id |-> snapshot_id, bom_item_id |-> bom_item_id,
                 quantity |-> quantity, attributes |-> attributes,
                 checksum |-> checksum]
        hit == SelectSeq2(s.snapshot_items, snapshot_id, bom_item_id)
    IN  IF hit = {}
        THEN [s EXCEPT !.snapshot_items = Append(@, item)]
        ELSE [s EXCEPT !.snapshot_items =
                [i \in 1..Len(@) |-> IF i \in hit THEN item ELSE @[i]]]

\* SELECT ... FROM snapshot_items WHERE snapshot_id = %s
RECURSIVE FilterSnapshot(_, _)
FilterSnapshot(seq, snapshot_id) ==
    IF seq = <<>> THEN <<>>
    ELSE IF Head(seq).snapshot_id = snapshot_id
         THEN <<Head(seq)>> \o FilterSnapshot(Tail(seq), snapshot_id)
         ELSE FilterSnapshot(Tail(seq), snapshot_id)

get_snapshot_items(s, snapshot_id) == FilterSnapshot(s.snapshot_items, snapshot_id)

\* conn.commit(): the transaction's view becomes the committed tables;
\* conn.rollback(): the committed tables stay as they are.
commit(committed, view) == view
\* A rollback that keeps the transaction's writes: C1 tells it from rollback.
rollback_keeps_writes(committed, view) == view
rollback(committed, view) == committed

(***************************************************************************)
(* ingest_bom_snapshot, STEP 4: aggregation by bom_item_id (a dict in      *)
(* insertion order: a sequence of entries).                                *)
(***************************************************************************)
\* row.quantity or 0
QuantityOrZero(quantity) == IF quantity = None THEN 0 ELSE quantity[1]

InSeq(x, seq) == \E i \in 1..Len(seq) : seq[i] = x

\* The else branch of the loop: the same bom_item_id appears again.
MergeRow(existing, row) ==
    LET new_attrs == _extract_snapshot_attributes(row)
        existing_attrs == existing.attributes
        with_refdes ==
            IF /\ "reference_designator" \in DOMAIN new_attrs
               /\ ~Truthy(existing_attrs, "reference_designator")
            THEN ("reference_designator" :> new_attrs["reference_designator"])
                    @@ existing_attrs
            ELSE existing_attrs
        copied ==
            IF "row_indices" \in DOMAIN existing_attrs
            THEN existing_attrs["row_indices"]
            ELSE existing.row_indices
        combined ==
            IF InSeq(row.row_index, copied) THEN copied
            ELSE Append(copied, row.row_index)
    IN  [bom_item_id |-> existing.bom_item_id,
         quantity |-> IF row.quantity # None
                      THEN existing.quantity + row.quantity[1]
                      ELSE existing.quantity,
         attributes |-> ("row_indices" :> combined) @@ with_refdes,
         row_indices |-> Append(existing.row_indices, row.row_index)]

FirstRow(bom_item_id, row) ==
    [bom_item_id |-> bom_item_id,
     quantity |-> QuantityOrZero(row.quantity),
     attributes |-> _extract_snapshot_attributes(row),
     row_indices |-> <<row.row_index>>]

RECURSIVE Aggregate(_, _, _)
Aggregate(bom_item_mappings, rows, n) ==
    IF n = 0 THEN <<>>
    ELSE LET before == Aggregate(bom_item_mappings, rows, n - 1)
             id == bom_item_mappings[n]
             at == {i \in 1..Len(before) : before[i].bom_item_id = id}
         IN  IF at = {}
             THEN Append(before, FirstRow(id, rows[n]))
             ELSE [i \in 1..Len(before) |->
                     IF i \in at THEN MergeRow(before[i], rows[n]) ELSE before[i]]

\* quantity = aggregated['quantity'] if aggregated['quantity'] > 0 else None
FinalQuantity(aggregated) ==
    IF aggregated.quantity > 0 THEN Some(aggregated.quantity) ELSE None

(***************************************************************************)
(* Exceptions and outcomes of a call.                                      *)
(***************************************************************************)
NoExc == [type |-> "none", at |-> "none"]
Exc(type, at) == [type |-> type, at |-> at]
\* The error a failing store call raises.
StoreError(call) == Exc("StoreError", call)

NoOutcome == [kind |-> "none", snapshot_id |-> 0, exc |-> NoExc]
Returned(id) == [kind |-> "returned", snapshot_id |-> id, exc |-> NoExc]
Raised(e) == [kind |-> "raised", snapshot_id |-> 0, exc |-> e]

(***************************************************************************)
(* snapshot_diff.py.                                                       *)
(***************************************************************************)
\* float(x) of an int quantity.
Float(n) == [float |-> n]

\* A read through a connection of the pool that also sees what an open
\* transaction has written: C20 tells it from ReadView.
ReadView_uncommitted(committed, view, open) == IF open THEN view ELSE committed

\* What a statement on a connection taken from the pool reads (read
\* committed): the committed tables, whatever a transaction has written.
ReadView(committed, view, open) == committed

\* SELECT ... FROM bom_items_ bi JOIN assemblies a JOIN parts p
\* WHERE bi.id = ANY(%s): one entry per id that has a row.
get_bom_item_details(s, bom_item_ids) ==
    [u \in (bom_item_ids \cap 1..Len(s.bom_items)) |-> [part_id |-> s.bom_items[u].part_id]]

\* The loop of fetch_snapshot_state: the SnapshotItemState of every item,
\* in the order get_snapshot_items returned them.
SnapshotStates(snapshot_items, bom_item_details) ==
    [i \in 1..Len(snapshot_items) |->
        [bom_item_id |-> snapshot_items[i].bom_item_id,
         quantity |-> snapshot_items[i].quantity,
         attributes |-> snapshot_items[i].attributes,
         checksum |-> snapshot_items[i].checksum,
         part_id |-> IF snapshot_items[i].bom_item_id \in DOMAIN bom_item_details
                     THEN Some(bom_item_details[snapshot_items[i].bom_item_id].part_id)
                     ELSE None]]

fetch_snapshot_state(s, snapshot, bom_item_details) ==
    SnapshotStates(get_snapshot_items(s, snapshot), bom_item_details)

BomItemIds(snapshot_items) == {snapshot_items[i].bom_item_id : i \in 1..Len(snapshot_items)}

\* md5 over part_id | quantity | json.dumps(semantic_attrs, sort_keys=True).
_create_semantic_key(part, quantity, attributes) ==
    <<part, quantity, _filter_semantic_attributes(attributes)>>

\* One key for every part: C24 tells it from _create_part_based_key.
_create_part_based_key_constant(part) == None

_create_part_based_key(part) == part

FieldChange(type, field, from_value, to_value) ==
    [type |-> type, field |-> field, from_value |-> from_value, to_value |-> to_value]

QuantityAsFloat(quantity) == IF quantity = None THEN None ELSE Some(Float(quantity[1]))

\* ATTRIBUTE_ADDED and ATTRIBUTE_REMOVED taken for each other: C25 tells it
\* from AttributeChange.
AttributeChange_swapped(attrs_a, attrs_b, key) ==
    IF key \notin DOMAIN attrs_a
    THEN FieldChange("ATTRIBUTE_REMOVED", Some(key), None, Some(attrs_b[key]))
    ELSE IF key \notin DOMAIN attrs_b
    THEN FieldChange("ATTRIBUTE_ADDED", Some(key), Some(attrs_a[key]), None)
    ELSE FieldChange("ATTRIBUTE_CHANGED", Some(key), Some(attrs_a[key]), Some(attrs_b[key]))

\* The FieldChange diff_snapshot_item appends for one attribute key, if any.
AttributeChange(attrs_a, attrs_b, key) ==
    IF key \notin DOMAIN attrs_a
    THEN FieldChange("ATTRIBUTE_ADDED", Some(key), None, Some(attrs_b[key]))
    ELSE IF key \notin DOMAIN attrs_b
    THEN FieldChange("ATTRIBUTE_REMOVED", Some(key), Some(attrs_a[key]), None)
    ELSE FieldChange("ATTRIBUTE_CHANGED", Some(key), Some(attrs_a[key]), Some(attrs_b[key]))

AttributeDiffers(attrs_a, attrs_b, key) ==
    \/ key \notin DOMAIN attrs_a
    \/ key \notin DOMAIN attrs_b
    \/ attrs_a[key] # attrs_b[key]

\* A comparison that leaves the quantity out: C22 tells it from
\* diff_snapshot_item.
diff_snapshot_item_attributes_only(a, b) ==
    LET attrs_a == _filter_semantic_attributes(a.attributes)
        attrs_b == _filter_semantic_attributes(b.attributes)
        all_keys == DOMAIN attrs_a \cup DOMAIN attrs_b
    IN  {AttributeChange(attrs_a, attrs_b, key) :
            key \in {k \in all_keys : AttributeDiffers(attrs_a, attrs_b, k)}}

\* The list diff_snapshot_item returns, as a set: the attribute keys are
\* visited in the iteration order of a Python set.
diff_snapshot_item(a, b) ==
    LET attrs_a == _filter_semantic_attributes(a.attributes)
        attrs_b == _filter_semantic_attributes(b.attributes)
        all_keys == DOMAIN attrs_a \cup DOMAIN attrs_b
    IN  (IF a.quantity # b.quantity
         THEN {FieldChange("QUANTITY_CHANGED", None,
                           QuantityAsFloat(a.quantity), QuantityAsFloat(b.quantity))}
         ELSE {})
        \cup {AttributeChange(attrs_a, attrs_b, key) :
                key \in {k \in all_keys : AttributeDiffers(attrs_a, attrs_b, k)}}

RemoveAt(seq, i) == [j \in 1..(Len(seq) - 1) |-> IF j < i THEN seq[j] ELSE seq[j + 1]]

RECURSIVE Unmatched(_, _)
Unmatched(items, matched) ==
    IF items = <<>> THEN <<>>
    ELSE IF Head(items).bom_item_id \in matched THEN Unmatched(Tail(items), matched)
    ELSE <<Head(items)>> \o Unmatched(Tail(items), matched)

\* A list of keys, each once, in order of first appearance.
RECURSIVE KeysOf(_, _)
KeysOf(keys, seen) ==
    IF keys = <<>> THEN <<>>
    ELSE IF \E i \in 1..Len(seen) : seen[i] = Head(keys)
         THEN KeysOf(Tail(keys), seen)
         ELSE <<Head(keys)>> \o KeysOf(Tail(keys), Append(seen, Head(keys)))

\* The items whose key, at the same position of keys, is key.
RECURSIVE WithKey(_, _, _)
WithKey(items, keys, key) ==
    IF items = <<>> THEN <<>>
    ELSE IF Head(keys) = key
         THEN <<Head(items)>> \o WithKey(Tail(items), Tail(keys), key)
         ELSE WithKey(Tail(items), Tail(keys), key)

SemanticKeyOf(item) == _create_semantic_key(item.part_id, item.quantity, item.attributes)
PartKeyOf(item) == _create_part_based_key(item.part_id)
SemanticKeys(state) == [i \in 1..Len(state) |-> SemanticKeyOf(state[i])]
PartKeys(state) == [i \in 1..Len(state) |-> PartKeyOf(state[i])]

\* A pair recorded without marking the item of snapshot B as matched: C15
\* tells it from Matched.
Matched_a_only(m, id_a, id_b) ==
    [a |-> m.a \cup {id_a}, b |-> m.b, pairs |-> Append(m.pairs, <<id_a, id_b>>)]

Matched(m, id_a, id_b) ==
    [a |-> m.a \cup {id_a}, b |-> m.b \cup {id_b}, pairs |-> Append(m.pairs, <<id_a, id_b>>)]

\* No identity tier: C16 tells it from MatchIdentity.
MatchIdentity_skipped(state_a, state_b, m) == m

\* Identity tier: the bom_item_ids of both snapshots.
RECURSIVE MatchIdentity(_, _, _)
MatchIdentity(state_a, state_b, m) ==
    IF state_a = <<>> THEN m
    ELSE LET id == Head(state_a).bom_item_id
         IN  IF \E j \in 1..Len(state_b) : state_b[j].bom_item_id = id
             THEN MatchIdentity(Tail(state_a), state_b, Matched(m, id, id))
             ELSE MatchIdentity(Tail(state_a), state_b, m)

\* The while loop of the semantic-key tier on one bucket: the first pair with
\* equal checksums in (idx_a, idx_b) order, else the pair (0, 0); then both
\* pops, the second after "if best_match_idx_b > best_match_idx_a: -= 1".
RECURSIVE MatchBucket(_, _, _)
MatchBucket(items_a_unmatched, items_b_unmatched, m) ==
    IF items_a_unmatched = <<>> \/ items_b_unmatched = <<>> THEN m
    ELSE LET exact == {p \in (1..Len(items_a_unmatched)) \X (1..Len(items_b_unmatched)) :
                          items_a_unmatched[p[1]].checksum = items_b_unmatched[p[2]].checksum}
             best == IF exact = {} THEN <<1, 1>>
                     ELSE CHOOSE p \in exact : \A q \in exact :
                            p[1] < q[1] \/ (p[1] = q[1] /\ p[2] <= q[2])
             popped_b == IF best[2] > best[1] THEN best[2] - 1 ELSE best[2]
         IN  MatchBucket(RemoveAt(items_a_unmatched, best[1]),
                         RemoveAt(items_b_unmatched, popped_b),
                         Matched(m, items_a_unmatched[best[1]].bom_item_id,
                                    items_b_unmatched[best[2]].bom_item_id))

RECURSIVE MatchSemantic(_, _, _, _)
MatchSemantic(keys, state_a, state_b, m) ==
    IF keys = <<>> THEN m
    ELSE MatchSemantic(Tail(keys), state_a, state_b,
            MatchBucket(Unmatched(WithKey(state_a, SemanticKeys(state_a), Head(keys)), m.a),
                        Unmatched(WithKey(state_b, SemanticKeys(state_b), Head(keys)), m.b), m))

\* The while loop of the part-only tier on one bucket.
RECURSIVE MatchFirstAvailable(_, _, _)
MatchFirstAvailable(items_a_unmatched, items_b_unmatched, m) ==
    IF items_a_unmatched = <<>> \/ items_b_unmatched = <<>> THEN m
    ELSE MatchFirstAvailable(Tail(items_a_unmatched), Tail(items_b_unmatched),
                             Matched(m, Head(items_a_unmatched).bom_item_id,
                                        Head(items_b_unmatched).bom_item_id))

\* No part-only tier: C23 tells it from MatchPart.
MatchPart_skipped(keys, state_a, state_b, m) == m

RECURSIVE MatchPart(_, _, _, _)
MatchPart(keys, state_a, state_b, m) ==
    IF keys = <<>> THEN m
    ELSE MatchPart(Tail(keys), state_a, state_b,
            MatchFirstAvailable(Unmatched(WithKey(state_a, PartKeys(state_a), Head(keys)), m.a),
                                Unmatched(WithKey(state_b, PartKeys(state_b), Head(keys)), m.b), m))

\* Steps 4 and 5 of diff_snapshots: matched_a, matched_b and matched_pairs.
MatchItems(state_a, state_b) ==
    LET m1 == MatchIdentity(state_a, state_b, [a |-> {}, b |-> {}, pairs |-> <<>>])
        m2 == MatchSemantic(KeysOf(SemanticKeys(state_a \o state_b), <<>>),
                            state_a, state_b, m1)
    IN  MatchPart(KeysOf(PartKeys(state_a \o state_b), <<>>), state_a, state_b, m2)

StateById(state, id) == state[CHOOSE i \in 1..Len(state) : state[i].bom_item_id = id]

\* Step 7: the ModifiedItem of each matched pair whose checksums differ.
RECURSIVE ModifiedItems(_, _, _)
ModifiedItems(pairs, state_a, state_b) ==
    IF pairs = <<>> THEN <<>>
    ELSE LET a == StateById(state_a, Head(pairs)[1])
             b == StateById(state_b, Head(pairs)[2])
             changes == diff_snapshot_item(a, b)
         IN  (IF a.checksum # b.checksum /\ changes # {}
              THEN <<[bom_item_id |-> Head(pairs)[2], changes |-> changes]>>
              ELSE <<>>)
             \o ModifiedItems(Tail(pairs), state_a, state_b)

\* Steps 4 to 8 of diff_snapshots: the DiffResult of two snapshot states.
DiffResult(snapshot_a_id, snapshot_b_id, state_a, state_b) ==
    LET m == MatchItems(state_a, state_b)
    IN  [snapshot_a_id |-> snapshot_a_id,
         snapshot_b_id |-> snapshot_b_id,
         added_items |-> {state_b[i].bom_item_id : i \in 1..Len(state_b)} \ m.b,
         removed_items |-> {state_a[i].bom_item_id : i \in 1..Len(state_a)} \ m.a,
         modified_items |-> ModifiedItems(m.pairs, state_a, state_b),
         unchanged_count |->
            Cardinality({i \in 1..Len(m.pairs) :
                StateById(state_a, m.pairs[i][1]).checksum
                    = StateById(state_b, m.pairs[i][2]).checksum})]

\* diff_snapshots with all its reads made on the same tables s.
diff_snapshots(s, snapshot_a_id, snapshot_b_id) ==
    LET all_bom_item_ids == BomItemIds(get_snapshot_items(s, snapshot_a_id))
                                \cup BomItemIds(get_snapshot_items(s, snapshot_b_id))
        bom_item_details == get_bom_item_details(s, all_bom_item_ids)
    IN  DiffResult(snapshot_a_id, snapshot_b_id,
                   fetch_snapshot_state(s, snapshot_a_id, bom_item_details),
                   fetch_snapshot_state(s, snapshot_b_id, bom_item_details))

(***************************************************************************)
(* change_events.py: the ItemDelta of a diff unit and its classification.  *)
(***************************************************************************)
SPEC_ATTRIBUTE_KEYS ==
    {"value", "tolerance", "package", "footprint", "material", "voltage_rating",
     "current_rating", "power_rating", "temperature_rating", "description", "unit"}

MANUFACTURER_KEYS == {"manufacturer", "mfr", "vendor", "brand"}

MPN_KEYS ==
    {"manufacturer_part_number", "mpn", "mfr_part_number", "part_number",
     "vendor_part_number"}

REFDES_KEYS == {"reference_designator", "refdes", "designator"}

\* sub in text (Python's "in" on two strings).
Contains(text, sub) ==
    \E i \in 0..(Len(text) - Len(sub)) : SubSeq(text, i + 1, i + Len(sub)) = sub

\* ItemDelta(bom_item_id=...): the dataclass defaults.
ItemDelta(bom_item_id) ==
    [bom_item_id |-> bom_item_id,
     part_id |-> None,
     added |-> FALSE,
     removed |-> FALSE,
     quantity_changed |-> FALSE,
     manufacturer_changed |-> FALSE,
     mpn_changed |-> FALSE,
     reference_designator_changed |-> FALSE,
     changed_attributes |-> {},
     field_changes |-> {},
     quantity_from |-> None,
     quantity_to |-> None]

has_any_change(d) ==
    \/ d.added
    \/ d.removed
    \/ d.quantity_changed
    \/ d.manufacturer_changed
    \/ d.mpn_changed
    \/ d.reference_designator_changed
    \/ Cardinality(d.changed_attributes) > 0

\* field_lower in KEYS or any(k in field_lower for k in KEYS)
KeyHit(field_lower, KEYS) ==
    \E k \in KEYS : field_lower = Spell[k] \/ Contains(field_lower, Spell[k])

\* The manufacturer test made before the MPN test: C27 tells it from
\* ApplyChange.
ApplyChange_manufacturer_first(d, change) ==
    IF change.type = "QUANTITY_CHANGED"
    THEN [d EXCEPT !.quantity_changed = TRUE,
                   !.quantity_from = IF change.from_value = None THEN None
                                     ELSE Some(change.from_value[1].float),
                   !.quantity_to = IF change.to_value = None THEN None
                                   ELSE Some(change.to_value[1].float)]
    ELSE IF change.field = None \/ Spell[change.field[1]] = <<>>
    THEN d
    ELSE LET field_name == change.field[1]
             field_lower == Lower(Spell[field_name])
         IN  IF KeyHit(field_lower, MANUFACTURER_KEYS)
             THEN [d EXCEPT !.manufacturer_changed = TRUE]
             ELSE IF KeyHit(field_lower, MPN_KEYS)
             THEN [d EXCEPT !.mpn_changed = TRUE]
             ELSE IF KeyHit(field_lower, REFDES_KEYS)
             THEN [d EXCEPT !.reference_designator_changed = TRUE]
             ELSE [d EXCEPT !.changed_attributes = @ \cup {field_name}]

\* The body of the loop of _compute_item_delta_from_modified for one change.
ApplyChange(d, change) ==
    IF change.type = "QUANTITY_CHANGED"
    THEN [d EXCEPT !.quantity_changed = TRUE,
                   !.quantity_from = IF change.from_value = None THEN None
                                     ELSE Some(change.from_value[1].float),
                   !.quantity_to = IF change.to_value = None THEN None
                                   ELSE Some(change.to_value[1].float)]
    ELSE IF change.type \in {"ATTRIBUTE_CHANGED", "ATTRIBUTE_ADDED", "ATTRIBUTE_REMOVED"}
    THEN IF change.field = None \/ Spell[change.field[1]] = <<>>
         THEN d
         ELSE LET field_name == change.field[1]
                  field_lower == Lower(Spell[field_name])
              IN  IF KeyHit(field_lower, MPN_KEYS)
                  THEN [d EXCEPT !.mpn_changed = TRUE]
                  ELSE IF KeyHit(field_lower, MANUFACTURER_KEYS)
                  THEN [d EXCEPT !.manufacturer_changed = TRUE]
                  ELSE IF KeyHit(field_lower, REFDES_KEYS)
                  THEN [d EXCEPT !.reference_designator_changed = TRUE]
                  ELSE [d EXCEPT !.changed_attributes = @ \cup {field_name}]
    ELSE d

RECURSIVE ApplyChanges(_, _)
ApplyChanges(d, todo_changes) ==
    IF todo_changes = {} THEN d
    ELSE LET change == CHOOSE c \in todo_changes : TRUE
         IN  ApplyChanges(ApplyChange(d, change), todo_changes \ {change})

\* An ItemDelta that keeps the evidence and sets no flag: C19 tells it
\* from _compute_item_delta_from_modified.
_compute_item_delta_unflagged(modified) ==
    [ItemDelta(modified.bom_item_id) EXCEPT !.field_changes = modified.changes]

_compute_item_delta_from_modified(modified) ==
    ApplyChanges([ItemDelta(modified.bom_item_id) EXCEPT !.field_changes = modified.changes],
                 modified.changes)

_compute_item_delta_added(bom_item_id) ==
    [ItemDelta(bom_item_id) EXCEPT !.added = TRUE]

_compute_item_delta_removed(bom_item_id) ==
    [ItemDelta(bom_item_id) EXCEPT !.removed = TRUE]

\* The summary string: its fixed text and the values formatted into it.
Summary(text, attributes, quantities) ==
    [text |-> text, attributes |-> attributes, quantities |-> quantities]

ChangeEvent(d, event_type, severity, affected_domains, summary) ==
    [bom_item_id |-> d.bom_item_id,
     part_id |-> d.part_id,
     event_type |-> event_type,
     severity |-> severity,
     affected_domains |-> affected_domains,
     evidence |-> d.field_changes,
     summary |-> summary,
     delta |-> d]

\* Each rule returns None or Some(event).
_classify_added(d) ==
    IF ~d.added THEN None
    ELSE Some(ChangeEvent(d, "PART_ADDED", "HIGH", <<"ENGINEERING", "PROCUREMENT">>,
                          Summary("New part added to BOM", {}, <<>>)))

_classify_removed(d) ==
    IF ~d.removed THEN None
    ELSE Some(ChangeEvent(d, "PART_REMOVED", "HIGH", <<"ENGINEERING", "PROCUREMENT">>,
                          Summary("Part removed from BOM", {}, <<>>)))

_classify_substituted(d) ==
    IF ~(d.manufacturer_changed /\ d.mpn_changed) THEN None
    ELSE Some(ChangeEvent(d, "PART_SUBSTITUTED", "HIGH", <<"PROCUREMENT", "ENGINEERING">>,
                          Summary("Part substituted (different manufacturer and MPN)",
                                  {}, <<>>)))

_classify_manufacturer_changed(d) ==
    IF ~d.manufacturer_changed THEN None
    ELSE IF d.mpn_changed THEN None
    ELSE Some(ChangeEvent(d, "MANUFACTURER_CHANGED", "MEDIUM", <<"PROCUREMENT">>,
                          Summary("Manufacturer changed", {}, <<>>)))

_classify_quantity_changed(d) ==
    IF ~d.quantity_changed THEN None
    ELSE Some(ChangeEvent(d, "QUANTITY_CHANGED", "MEDIUM",
                          <<"PROCUREMENT", "MANUFACTURING">>,
                          IF d.quantity_from # None /\ d.quantity_to # None
                          THEN Summary("Quantity changed", {},
                                       <<d.quantity_from[1], d.quantity_to[1]>>)
                          ELSE Summary("Quantity changed", {}, <<>>)))

_classify_refdes_changed(d) ==
    IF ~d.reference_designator_changed THEN None
    ELSE Some(ChangeEvent(d, "REFERENCE_DESIGNATOR_CHANGED", "LOW", <<"MANUFACTURING">>,
                          Summary("Reference designator changed", {}, <<>>)))

_classify_spec_attribute_changed(d) ==
    IF d.changed_attributes = {} THEN None
    ELSE LET spec_changes == d.changed_attributes \cap SPEC_ATTRIBUTE_KEYS
         IN  IF spec_changes = {} THEN None
             ELSE Some(ChangeEvent(d, "SPEC_ATTRIBUTE_CHANGED", "MEDIUM", <<"ENGINEERING">>,
                                   Summary("Specification changed", spec_changes, <<>>)))

\* A fallback that gives up on a delta whose only change is the MPN: C17
\* tells it from _classify_unclassified.
_classify_unclassified_without_mpn(d) ==
    IF ~(has_any_change(d) /\ (d.changed_attributes # {} \/ ~d.mpn_changed)) THEN None
    ELSE Some(ChangeEvent(d, "UNCLASSIFIED_CHANGE", "LOW", <<>>,
                          Summary("Unclassified change", d.changed_attributes, <<>>)))

_classify_unclassified(d) ==
    IF ~has_any_change(d) THEN None
    ELSE Some(ChangeEvent(d, "UNCLASSIFIED_CHANGE", "LOW", <<>>,
                          Summary("Unclassified change",
                                  d.changed_attributes
                                    \cup (IF d.mpn_changed THEN {"MPN"} ELSE {}),
                                  <<>>)))

\* CLASSIFICATION_RULES with the refdes and the spec rule exchanged: C18
\* tells it from RuleResult.
RuleResult_spec_before_refdes(i, d) ==
    CASE i = 1 -> _classify_added(d)
      [] i = 2 -> _classify_removed(d)
      [] i = 3 -> _classify_substituted(d)
      [] i = 4 -> _classify_manufacturer_changed(d)
      [] i = 5 -> _classify_quantity_changed(d)
      [] i = 6 -> _classify_spec_attribute_changed(d)
      [] i = 7 -> _classify_refdes_changed(d)
      [] i = 8 -> _classify_unclassified(d)

\* CLASSIFICATION_RULES, by position.
RuleResult(i, d) ==
    CASE i = 1 -> _classify_added(d)
      [] i = 2 -> _classify_removed(d)
      [] i = 3 -> _classify_substituted(d)
      [] i = 4 -> _classify_manufacturer_changed(d)
      [] i = 5 -> _classify_quantity_changed(d)
      [] i = 6 -> _classify_refdes_changed(d)
      [] i = 7 -> _classify_spec_attribute_changed(d)
      [] i = 8 -> _classify_unclassified(d)

NumRules == 8

\* for rule in CLASSIFICATION_RULES: the first event that is not None.
_classify_delta(d) ==
    IF ~has_any_change(d) THEN None
    ELSE LET hits == {i \in 1..NumRules : RuleResult(i, d) # None}
         IN  IF hits = {} THEN None
             ELSE RuleResult(CHOOSE i \in hits : \A j \in hits : i <= j, d)

\* sorted(list(added_ids)): the ids of a set, ascending (the model keeps
\* added_items and removed_items as sets).
RECURSIVE Ascending(_)
Ascending(ids) ==
    IF ids = {} THEN <<>>
    ELSE LET least == CHOOSE i \in ids : \A j \in ids : i <= j
         IN  <<least>> \o Ascending(ids \ {least})

\* events.append(event) under "if event:".
RECURSIVE EventsOf(_)
EventsOf(deltas) ==
    IF deltas = <<>> THEN <<>>
    ELSE LET e == _classify_delta(Head(deltas))
         IN  (IF e # None THEN <<e[1]>> ELSE <<>>) \o EventsOf(Tail(deltas))

classify_diff(diff_result) ==
    LET added == Ascending(diff_result.added_items)
        removed == Ascending(diff_result.removed_items)
        events ==
            EventsOf([i \in 1..Len(added) |-> _compute_item_delta_added(added[i])])
            \o EventsOf([i \in 1..Len(removed) |-> _compute_item_delta_removed(removed[i])])
            \o EventsOf([i \in 1..Len(diff_result.modified_items) |->
                    _compute_item_delta_from_modified(diff_result.modified_items[i])])
    IN  [snapshot_a_id |-> diff_result.snapshot_a_id,
         snapshot_b_id |-> diff_result.snapshot_b_id,
         events |-> events,
         total_changes |-> Len(events),
         added_count |-> Cardinality(diff_result.added_items),
         removed_count |-> Cardinality(diff_result.removed_items),
         modified_count |-> Len(diff_result.modified_items)]

(***************************************************************************)
(* State.                                                                  *)
(***************************************************************************)
VARIABLES
    db,                 \* the committed tables
    tx,                 \* the tables as the open transaction sees them
    transaction_conn,   \* SupabaseClient._transaction_conn is not None
    pc,                 \* the statement ingest_bom_snapshot is at
    args,               \* the arguments of the call
    org_id, assembly_id, row_i, part_id, bom_item_mappings, snapshot_id,
    todo,               \* entries of bom_item_aggregated still to insert
    exc,                \* the exception caught by "except Exception as e"
    calls,              \* store methods called by the current call, in order
    outcome,            \* what the last call returned or raised
    db0,                \* the committed tables when the call started
    ingests,            \* the calls that returned, oldest first
    last_diff,          \* the result of the last diff_snapshots call
    classification,     \* the result of the last classify_diff call
    item_a, item_b,     \* two SnapshotItemStates given to diff_snapshot_item
    item_v,             \* item_a with keys reordered, padded or non-semantic keys set
    changes,            \* what diff_snapshot_item returned for them
    modified_item,      \* a ModifiedItem given to _compute_item_delta_from_modified
    delta, event,       \* an ItemDelta and what _classify_delta returned for it
    diff_pc,            \* the statement a concurrent diff_snapshots call is at
    diff_locals,        \* the values that call has read so far
    clients,            \* two clients ingesting at once: where each call is
    shared              \* the tables those two clients write to

locals == <<org_id, assembly_id, row_i, part_id, bom_item_mappings, snapshot_id, todo>>
ingest_vars == <<tx, transaction_conn, pc, args, locals, exc, calls, outcome, db0, ingests>>
pure_vars == <<item_a, item_b, item_v, changes, modified_item, delta, event>>
diff_vars == <<diff_pc, diff_locals>>
client_vars == <<clients, shared>>
vars == <<db, tx, transaction_conn, pc, args, locals, exc, calls, outcome, db0,
          ingests, last_diff, classification, pure_vars, diff_vars, client_vars>>

NoArgs == [org_id |-> 0, assembly_id |-> None, assembly_name |-> None, rows |-> <<>>]
NoDiff == [snapshot_a_id |-> 0, snapshot_b_id |-> 0, added_items |-> {},
           removed_items |-> {}, modified_items |-> <<>>, unchanged_count |-> 0]

NoClassification == None

\* No item: what item_a, item_b and item_v hold outside the checksum steps.
NoItem == [quantity |-> None, attributes |-> EmptyMap, order |-> <<>>,
           checksum |-> None]
NoChanges == [done |-> FALSE, ab |-> {}, vb |-> {}, ba |-> {}, bv |-> {}]
NoModified == [bom_item_id |-> 0, changes |-> {}]
NoDelta == ItemDelta(0)
NoEvent == [returned |-> FALSE, value |-> None]
NoDiffLocals == [snapshot_a_id |-> 0, snapshot_b_id |-> 0,
                 snapshot_items_a |-> <<>>, snapshot_items_b |-> <<>>,
                 bom_item_details |-> <<>>,
                 state_a |-> <<>>, state_b |-> <<>>,
                 uncommitted |-> 0]

\* No ingest_bom_snapshot call is running and none has run.
Clients == {1, 2}

NoWrites ==
    [organizations |-> {}, assemblies |-> {}, parts |-> {}, bom_items |-> {},
     snapshots |-> {}, snapshot_items |-> {}]

NoClient ==
    [pc |-> "idle", rows |-> <<>>, org_id |-> 0, assembly_name |-> "", assembly_id |-> 0,
     row_i |-> 0, part_id |-> 0, bom_item_mappings |-> <<>>, snapshot_id |-> 0,
     todo |-> <<>>, written |-> NoWrites]

NoClients ==
    /\ clients = [c \in Clients |-> NoClient]
    /\ shared = EmptyStore

NoIngest ==
    /\ tx = EmptyStore
    /\ transaction_conn = FALSE
    /\ pc = "idle"
    /\ args = NoArgs
    /\ org_id = 0 /\ assembly_id = 0 /\ row_i = 0 /\ part_id = 0
    /\ bom_item_mappings = <<>> /\ snapshot_id = 0 /\ todo = <<>>
    /\ exc = NoExc
    /\ calls = <<>>
    /\ outcome = NoOutcome
    /\ db0 = EmptyStore
    /\ ingests = <<>>

NoDiffCall ==
    /\ last_diff = NoDiff
    /\ classification = NoClassification
    /\ diff_pc = "idle"
    /\ diff_locals = NoDiffLocals

NoItems ==
    /\ item_a = NoItem /\ item_b = NoItem /\ item_v = NoItem
    /\ changes = NoChanges

NoDeltas ==
    /\ modified_item = NoModified
    /\ delta = NoDelta
    /\ event = NoEvent

Init ==
    /\ db = EmptyStore
    /\ NoIngest
    /\ NoClients
    /\ NoDiffCall
    /\ NoItems
    /\ NoDeltas

ResetLocals ==
    /\ org_id' = 0 /\ assembly_id' = 0 /\ row_i' = 0 /\ part_id' = 0
    /\ bom_item_mappings' = <<>> /\ snapshot_id' = 0 /\ todo' = <<>>

\* A store method of the try block raises: control goes to the except clause.
RaiseInTry(e) ==
    /\ exc' = e
    /\ pc' = "except"

(***************************************************************************)
(* ingest_bom_snapshot, one action per store call.                         *)
(***************************************************************************)
\* Argument checks without the "both supplied" test: C3 tells it from
\* InvalidArguments.
InvalidArguments_both_allowed(a) ==
    \/ a.rows = <<>>
    \/ a.assembly_id = None /\ a.assembly_name = None

InvalidArguments(a) ==
    \/ a.rows = <<>>
    \/ a.assembly_id = None /\ a.assembly_name = None
    \/ a.assembly_id # None /\ a.assembly_name # None

\* The call and its argument checks (lines 838-853).
Call(org, aid, aname, rows) ==
    /\ pc = "idle"
    /\ Len(ingests) < MaxIngest
    /\ args' = [org_id |-> org, assembly_id |-> aid, assembly_name |-> aname,
                rows |-> rows]
    /\ calls' = <<>>
    /\ db0' = db
    /\ exc' = NoExc
    /\ ResetLocals
    /\ last_diff' = NoDiff
    /\ classification' = NoClassification
    /\ UNCHANGED <<pure_vars, diff_vars, client_vars>>
    /\ IF InvalidArguments(args')
       THEN /\ outcome' = Raised(Exc("ValueError", "arguments"))
            /\ pc' = "idle"
       ELSE /\ outcome' = NoOutcome
            /\ pc' = "begin_transaction"
    /\ UNCHANGED <<db, tx, transaction_conn, ingests>>

\* db.begin_transaction() is outside the try block.
BeginTransaction(fail) ==
    /\ pc = "begin_transaction"
    /\ calls' = Append(calls, "begin_transaction")
    /\ IF transaction_conn
       THEN /\ outcome' = Raised(Exc("RuntimeError", "begin_transaction"))
            /\ pc' = "idle"
            /\ UNCHANGED <<tx, transaction_conn>>
       ELSE IF fail
       THEN /\ outcome' = Raised(StoreError("begin_transaction"))
            /\ pc' = "idle"
            /\ UNCHANGED <<tx, transaction_conn>>
       ELSE /\ transaction_conn' = TRUE
            /\ tx' = db
            /\ pc' = "get_or_create_organization"
            /\ UNCHANGED outcome
    /\ UNCHANGED <<db, args, locals, exc, db0, ingests, last_diff, classification,
                   pure_vars, diff_vars, client_vars>>

GetOrCreateOrganization(fail) ==
    /\ pc = "get_or_create_organization"
    /\ calls' = Append(calls, "get_or_create_organization")
    /\ IF fail
       THEN /\ RaiseInTry(StoreError("get_or_create_organization"))
            /\ UNCHANGED <<tx, org_id>>
       ELSE /\ tx' = get_or_create_organization(tx, args.org_id)
            /\ org_id' = args.org_id
            /\ exc' = exc
            /\ pc' = IF args.assembly_id # None THEN "get_assembly_by_id"
                     ELSE "get_or_create_assembly"
    /\ UNCHANGED <<db, transaction_conn, args, assembly_id, row_i, part_id,
                   bom_item_mappings, snapshot_id, todo, outcome, db0, ingests,
                   last_diff, classification,
                   pure_vars, diff_vars, client_vars>>

GetAssemblyById(fail) ==
    /\ pc = "get_assembly_by_id"
    /\ calls' = Append(calls, "get_assembly_by_id")
    /\ IF fail
       THEN /\ RaiseInTry(StoreError("get_assembly_by_id"))
            /\ UNCHANGED <<assembly_id, row_i>>
       ELSE IF AssemblyById(tx, org_id, args.assembly_id[1]) = {}
       THEN /\ RaiseInTry(Exc("ValueError", "get_assembly_by_id"))
            /\ UNCHANGED <<assembly_id, row_i>>
       ELSE /\ assembly_id' = args.assembly_id[1]
            /\ row_i' = 1
            /\ exc' = exc
            /\ pc' = "find_similar_parts"
    /\ UNCHANGED <<db, tx, transaction_conn, args, org_id, part_id,
                   bom_item_mappings, snapshot_id, todo, outcome, db0, ingests,
                   last_diff, classification,
                   pure_vars, diff_vars, client_vars>>

GetOrCreateAssembly(fail) ==
    /\ pc = "get_or_create_assembly"
    /\ calls' = Append(calls, "get_or_create_assembly")
    /\ IF fail
       THEN /\ RaiseInTry(StoreError("get_or_create_assembly"))
            /\ UNCHANGED <<tx, assembly_id, row_i>>
       ELSE LET hits == AssemblyByName(tx, org_id, args.assembly_name[1])
            IN  /\ IF hits # {}
                   THEN /\ assembly_id' \in hits
                        /\ tx' = tx
                   ELSE /\ assembly_id' = Len(tx.assemblies) + 1
                        /\ tx' = create_assembly(tx, org_id, args.assembly_name[1])
                /\ row_i' = 1
                /\ exc' = exc
                /\ pc' = "find_similar_parts"
    /\ UNCHANGED <<db, transaction_conn, args, org_id, part_id,
                   bom_item_mappings, snapshot_id, todo, outcome, db0, ingests,
                   last_diff, classification,
                   pure_vars, diff_vars, client_vars>>

\* _resolve_or_create_part up to the choice between reuse and creation.
FindSimilarParts(fail) ==
    /\ pc = "find_similar_parts"
    /\ calls' = Append(calls, "find_similar_parts")
    /\ IF fail
       THEN /\ RaiseInTry(StoreError("find_similar_parts"))
            /\ UNCHANGED part_id
       ELSE LET row == args.rows[row_i]
                similar_parts ==
                    find_similar_parts(tx, org_id, row.part_name,
                                       _extract_part_attributes(row), <<8, 10>>)
            IN  /\ exc' = exc
                /\ IF similar_parts # {}
                   THEN /\ part_id' \in similar_parts
                        /\ pc' = "find_similar_bom_items"
                   ELSE /\ part_id' = part_id
                        /\ pc' = "create_part"
    /\ UNCHANGED <<db, tx, transaction_conn, args, org_id, assembly_id, row_i,
                   bom_item_mappings, snapshot_id, todo, outcome, db0, ingests,
                   last_diff, classification,
                   pure_vars, diff_vars, client_vars>>

CreatePart(fail) ==
    /\ pc = "create_part"
    /\ calls' = Append(calls, "create_part")
    /\ IF fail
       THEN /\ RaiseInTry(StoreError("create_part"))
            /\ UNCHANGED <<tx, part_id>>
       ELSE LET row == args.rows[row_i]
            IN  /\ tx' = create_part(tx, org_id, row.part_name,
                                     _extract_part_attributes(row))
                /\ part_id' = Len(tx.parts) + 1
                /\ exc' = exc
                /\ pc' = "find_similar_bom_items"
    /\ UNCHANGED <<db, transaction_conn, args, org_id, assembly_id, row_i,
                   bom_item_mappings, snapshot_id, todo, outcome, db0, ingests,
                   last_diff, classification,
                   pure_vars, diff_vars, client_vars>>

\* A loop that resolves the part of the first row only and goes on with the
\* usages of the other rows: C28 tells it from RowResolved.
RowResolved_part_kept(bom_item_id) ==
    /\ bom_item_mappings' = Append(bom_item_mappings, bom_item_id)
    /\ IF row_i < Len(args.rows)
       THEN row_i' = row_i + 1 /\ pc' = "find_similar_bom_items"
       ELSE row_i' = row_i /\ pc' = "create_snapshot"

\* bom_item_mappings.append(...) and the next turn of "for row in rows".
RowResolved(bom_item_id) ==
    /\ bom_item_mappings' = Append(bom_item_mappings, bom_item_id)
    /\ IF row_i < Len(args.rows)
       THEN row_i' = row_i + 1 /\ pc' = "find_similar_parts"
       ELSE row_i' = row_i /\ pc' = "create_snapshot"

FindSimilarBomItems(fail) ==
    /\ pc = "find_similar_bom_items"
    /\ calls' = Append(calls, "find_similar_bom_items")
    /\ IF fail
       THEN /\ RaiseInTry(StoreError("find_similar_bom_items"))
            /\ UNCHANGED <<row_i, bom_item_mappings>>
       ELSE LET row == args.rows[row_i]
                similar_items ==
                    find_similar_bom_items(tx, assembly_id, part_id,
                                           _extract_bom_item_context(row), <<7, 10>>)
            IN  /\ exc' = exc
                /\ IF similar_items # {}
                   THEN \E best_match_id \in similar_items : RowResolved(best_match_id)
                   ELSE /\ pc' = "create_bom_item"
                        /\ UNCHANGED <<row_i, bom_item_mappings>>
    /\ UNCHANGED <<db, tx, transaction_conn, args, org_id, assembly_id, part_id,
                   snapshot_id, todo, outcome, db0, ingests, last_diff, classification,
                   pure_vars, diff_vars, client_vars>>

CreateBomItem(fail) ==
    /\ pc = "create_bom_item"
    /\ calls' = Append(calls, "create_bom_item")
    /\ IF fail
       THEN /\ RaiseInTry(StoreError("create_bom_item"))
            /\ UNCHANGED <<tx, row_i, bom_item_mappings>>
       ELSE /\ tx' = create_bom_item(tx, assembly_id, part_id,
                                     _extract_bom_item_context(args.rows[row_i]))
            /\ RowResolved(Len(tx.bom_items) + 1)
            /\ exc' = exc
    /\ UNCHANGED <<db, transaction_conn, args, org_id, assembly_id, part_id,
                   snapshot_id, todo, outcome, db0, ingests, last_diff, classification,
                   pure_vars, diff_vars, client_vars>>

\* STEP 3, and the aggregation of STEP 4, which calls nothing.
CreateSnapshot(fail) ==
    /\ pc = "create_snapshot"
    /\ calls' = Append(calls, "create_snapshot")
    /\ IF fail
       THEN /\ RaiseInTry(StoreError("create_snapshot"))
            /\ UNCHANGED <<tx, snapshot_id, todo>>
       ELSE /\ tx' = create_snapshot(tx, org_id, assembly_id)
            /\ snapshot_id' = Len(tx.snapshots) + 1
            /\ todo' = Aggregate(bom_item_mappings, args.rows, Len(args.rows))
            /\ exc' = exc
            /\ pc' = "insert_snapshot_item"
    /\ UNCHANGED <<db, transaction_conn, args, org_id, assembly_id, row_i, part_id,
                   bom_item_mappings, outcome, db0, ingests, last_diff, classification,
                   pure_vars, diff_vars, client_vars>>

\* One turn of "for bom_item_id, aggregated in bom_item_aggregated.items()".
InsertSnapshotItem(fail) ==
    /\ pc = "insert_snapshot_item"
    /\ calls' = Append(calls, "insert_snapshot_item")
    /\ IF fail
       THEN /\ RaiseInTry(StoreError("insert_snapshot_item"))
            /\ UNCHANGED <<tx, todo>>
       ELSE LET aggregated == Head(todo)
                quantity == FinalQuantity(aggregated)
                checksum == _compute_checksum(quantity, aggregated.attributes)
            IN  /\ tx' = insert_snapshot_item(tx, snapshot_id, aggregated.bom_item_id,
                                              quantity, aggregated.attributes, checksum)
                /\ todo' = Tail(todo)
                /\ exc' = exc
                /\ pc' = IF Tail(todo) = <<>> THEN "commit_transaction"
                         ELSE "insert_snapshot_item"
    /\ UNCHANGED <<db, transaction_conn, args, org_id, assembly_id, row_i, part_id,
                   bom_item_mappings, snapshot_id, outcome, db0, ingests, last_diff, classification,
                   pure_vars, diff_vars, client_vars>>

IngestRecord ==
    [org_id |-> org_id, assembly_id |-> assembly_id, rows |-> args.rows,
     bom_item_mappings |-> bom_item_mappings, snapshot_id |-> snapshot_id,
     parts_before |-> Len(db.parts), bom_items_before |-> Len(db.bom_items)]

\* db.commit_transaction() and "return snapshot_id". commit_transaction gives
\* the connection back and clears _transaction_conn in a finally clause, also
\* when conn.commit() raises.
CommitTransaction(fail) ==
    /\ pc = "commit_transaction"
    /\ calls' = Append(calls, "commit_transaction")
    /\ IF ~transaction_conn
       THEN /\ RaiseInTry(Exc("RuntimeError", "commit_transaction"))
            /\ UNCHANGED <<db, tx, transaction_conn, outcome, ingests>>
       ELSE IF fail
       THEN /\ RaiseInTry(StoreError("commit_transaction"))
            /\ transaction_conn' = FALSE
            /\ tx' = EmptyStore
            /\ UNCHANGED <<db, outcome, ingests>>
       ELSE /\ db' = commit(db, tx)
            /\ transaction_conn' = FALSE
            /\ tx' = EmptyStore
            /\ outcome' = Returned(snapshot_id)
            /\ ingests' = Append(ingests, IngestRecord)
            /\ exc' = exc
            /\ pc' = "idle"
    /\ UNCHANGED <<args, locals, db0, last_diff, classification,
                   pure_vars, diff_vars, client_vars>>

\* except Exception as e: db.rollback_transaction(); logger.error(...); raise.
\* rollback_transaction raises RuntimeError when _transaction_conn is None,
\* and an exception raised inside the except clause replaces e.
ExceptHandler ==
    /\ pc = "except"
    /\ calls' = Append(calls, "rollback_transaction")
    /\ IF ~transaction_conn
       THEN /\ outcome' = Raised(Exc("RuntimeError", "rollback_transaction"))
            /\ UNCHANGED <<db, tx, transaction_conn>>
       ELSE /\ db' = rollback(db, tx)
            /\ transaction_conn' = FALSE
            /\ tx' = EmptyStore
            /\ outcome' = Raised(exc)
    /\ pc' = "idle"
    /\ UNCHANGED <<args, locals, exc, db0, ingests, last_diff, classification,
                   pure_vars, diff_vars, client_vars>>

\* diff_snapshots reads through connections of its own: the committed tables.
\* Call forgets the result of the diff before it.
DiffSnapshots(snapshot_a_id, snapshot_b_id) ==
    /\ last_diff' = diff_snapshots(db, snapshot_a_id, snapshot_b_id)
    /\ classification' = NoClassification
    /\ UNCHANGED <<db, tx, transaction_conn, pc, args, locals, exc, calls, outcome,
                   db0, ingests, pure_vars, diff_vars, client_vars>>

\* classify_diff on the result of the last diff_snapshots call.
ClassifyDiff ==
    /\ last_diff # NoDiff
    /\ classification = NoClassification
    /\ classification' = Some(classify_diff(last_diff))
    /\ UNCHANGED <<db, tx, transaction_conn, pc, args, locals, exc, calls, outcome,
                   db0, ingests, last_diff, pure_vars, diff_vars, client_vars>>

\* _classify_delta on an ItemDelta.
ClassifyDelta ==
    /\ ~event.returned
    /\ event' = [returned |-> TRUE, value |-> _classify_delta(delta)]
    /\ UNCHANGED <<db, tx, transaction_conn, pc, args, locals, exc, calls, outcome,
                   db0, ingests, last_diff, classification, diff_vars,
                   item_a, item_b, item_v, changes, modified_item, delta, client_vars>>

\* _compute_item_delta_from_modified on a ModifiedItem.
ComputeItemDelta ==
    /\ modified_item # NoModified
    /\ delta = NoDelta
    /\ delta' = _compute_item_delta_from_modified(modified_item)
    /\ UNCHANGED <<db, tx, transaction_conn, pc, args, locals, exc, calls, outcome,
                   db0, ingests, last_diff, classification, diff_vars,
                   item_a, item_b, item_v, changes, modified_item, event, client_vars>>

(***************************************************************************)
(* diff_snapshots called while ingest_bom_snapshot runs: one action per    *)
(* read. Each read is a statement on a connection taken from the pool.     *)
(***************************************************************************)
\* The items a read of the diff gets for a snapshot.
ReadItems(snapshot) ==
    get_snapshot_items(ReadView(db, tx, transaction_conn), snapshot)

\* The items of a snapshot an open transaction has written and not
\* committed, counted when the diff reads the snapshot.
Uncommitted(snapshot) ==
    IF transaction_conn /\ get_snapshot_items(db, snapshot) = <<>>
    THEN Len(get_snapshot_items(tx, snapshot))
    ELSE 0

DiffCall(snapshot_a_id, snapshot_b_id) ==
    /\ diff_pc = "idle"
    /\ diff_pc' = "get_snapshot_items_a"
    /\ diff_locals' = [NoDiffLocals EXCEPT !.snapshot_a_id = snapshot_a_id,
                                          !.snapshot_b_id = snapshot_b_id]
    /\ last_diff' = NoDiff
    /\ classification' = NoClassification
    /\ UNCHANGED <<db, ingest_vars, pure_vars, client_vars>>

\* snapshot_items_a = db.get_snapshot_items(snapshot_a_id)
DiffGetSnapshotItemsA ==
    /\ diff_pc = "get_snapshot_items_a"
    /\ diff_pc' = "get_snapshot_items_b"
    /\ diff_locals' = [diff_locals EXCEPT
            !.snapshot_items_a = ReadItems(diff_locals.snapshot_a_id),
            !.uncommitted = IF Uncommitted(diff_locals.snapshot_a_id) > @
                            THEN Uncommitted(diff_locals.snapshot_a_id) ELSE @]
    /\ UNCHANGED <<db, ingest_vars, last_diff, classification, pure_vars, client_vars>>

\* snapshot_items_b = db.get_snapshot_items(snapshot_b_id)
DiffGetSnapshotItemsB ==
    /\ diff_pc = "get_snapshot_items_b"
    /\ diff_pc' = "get_bom_item_details"
    /\ diff_locals' = [diff_locals EXCEPT
            !.snapshot_items_b = ReadItems(diff_locals.snapshot_b_id),
            !.uncommitted = IF Uncommitted(diff_locals.snapshot_b_id) > @
                            THEN Uncommitted(diff_locals.snapshot_b_id) ELSE @]
    /\ UNCHANGED <<db, ingest_vars, last_diff, classification, pure_vars, client_vars>>

\* bom_item_details = db.get_bom_item_details(list(all_bom_item_ids))
DiffGetBomItemDetails ==
    /\ diff_pc = "get_bom_item_details"
    /\ diff_pc' = "fetch_snapshot_state_a"
    /\ diff_locals' = [diff_locals EXCEPT !.bom_item_details =
            get_bom_item_details(ReadView(db, tx, transaction_conn),
                                 BomItemIds(diff_locals.snapshot_items_a)
                                    \cup BomItemIds(diff_locals.snapshot_items_b))]
    /\ UNCHANGED <<db, ingest_vars, last_diff, classification, pure_vars, client_vars>>

\* state_a = fetch_snapshot_state(db, snapshot_a_id, bom_item_details)
DiffFetchSnapshotStateA ==
    /\ diff_pc = "fetch_snapshot_state_a"
    /\ diff_pc' = "fetch_snapshot_state_b"
    /\ diff_locals' = [diff_locals EXCEPT
            !.state_a = fetch_snapshot_state(ReadView(db, tx, transaction_conn),
                                             diff_locals.snapshot_a_id,
                                             diff_locals.bom_item_details),
            !.uncommitted = IF Uncommitted(diff_locals.snapshot_a_id) > @
                            THEN Uncommitted(diff_locals.snapshot_a_id) ELSE @]
    /\ UNCHANGED <<db, ingest_vars, last_diff, classification, pure_vars, client_vars>>

\* state_b = fetch_snapshot_state(db, snapshot_b_id, bom_item_details)
DiffFetchSnapshotStateB ==
    /\ diff_pc = "fetch_snapshot_state_b"
    /\ diff_pc' = "return"
    /\ diff_locals' = [diff_locals EXCEPT
            !.state_b = fetch_snapshot_state(ReadView(db, tx, transaction_conn),
                                             diff_locals.snapshot_b_id,
                                             diff_locals.bom_item_details),
            !.uncommitted = IF Uncommitted(diff_locals.snapshot_b_id) > @
                            THEN Uncommitted(diff_locals.snapshot_b_id) ELSE @]
    /\ UNCHANGED <<db, ingest_vars, last_diff, classification, pure_vars, client_vars>>

\* Steps 4 to 8 and the return.
DiffReturn ==
    /\ diff_pc = "return"
    /\ diff_pc' = "idle"
    /\ last_diff' = DiffResult(diff_locals.snapshot_a_id, diff_locals.snapshot_b_id,
                               diff_locals.state_a, diff_locals.state_b)
    /\ diff_locals' = NoDiffLocals
    /\ UNCHANGED <<db, ingest_vars, classification, pure_vars, client_vars>>

(***************************************************************************)
(* _compute_checksum and diff_snapshot_item on their own: item_v starts as *)
(* item_a and a caller rewrites it before the two functions are applied.   *)
(***************************************************************************)
\* The orders a dict with these keys can have been filled in.
Orders(keys) ==
    {o \in [1..Cardinality(keys) -> keys] : \A i, j \in DOMAIN o : o[i] = o[j] => i = j}

\* attributes[key] = value on a Python dict: a new key goes last.
SetKey(item, key, value) ==
    [item EXCEPT !.attributes = (key :> value) @@ @,
                 !.order = IF key \in DOMAIN item.attributes THEN @ ELSE Append(@, key)]

RECURSIVE Doubled(_)
Doubled(text) ==
    IF text = <<>> THEN <<>>
    ELSE (IF Head(text) = " " THEN <<" ", " ">> ELSE <<Head(text)>>) \o Doubled(Tail(text))

\* text with a leading space, a trailing space, or every space repeated.
Paddings(text) == {<<" ">> \o text, text \o <<" ">>, Doubled(text)} \ {text}

SetNonSemanticKey(key, value) ==
    /\ item_v.checksum = None
    /\ key \in NON_SEMANTIC_ATTRIBUTE_KEYS
    /\ item_v' = SetKey(item_v, key, value)
    /\ item_v' # item_v
    /\ UNCHANGED <<db, ingest_vars, last_diff, classification, diff_vars,
                   item_a, item_b, changes, modified_item, delta, event, client_vars>>

ReorderKeys(order) ==
    /\ item_v.checksum = None
    /\ order # item_v.order
    /\ item_v' = [item_v EXCEPT !.order = order]
    /\ UNCHANGED <<db, ingest_vars, last_diff, classification, diff_vars,
                   item_a, item_b, changes, modified_item, delta, event, client_vars>>

PadValue(key) ==
    /\ item_v.checksum = None
    /\ key \in DOMAIN item_a.attributes
    /\ IsStrKey(key)
    /\ item_v.attributes[key] = item_a.attributes[key]
    /\ \E padded \in Paddings(item_a.attributes[key]) :
            item_v' = SetKey(item_v, key, padded)
    /\ UNCHANGED <<db, ingest_vars, last_diff, classification, diff_vars,
                   item_a, item_b, changes, modified_item, delta, event, client_vars>>

WithChecksum(item) ==
    [item EXCEPT !.checksum = Some(ChecksumOf(item.quantity, item.attributes, item.order))]

ComputeChecksums ==
    /\ item_v.checksum = None
    /\ item_a' = WithChecksum(item_a)
    /\ item_b' = WithChecksum(item_b)
    /\ item_v' = WithChecksum(item_v)
    /\ UNCHANGED <<db, ingest_vars, last_diff, classification, diff_vars,
                   changes, modified_item, delta, event, client_vars>>

DiffItems ==
    /\ item_v.checksum # None
    /\ ~changes.done
    /\ changes' = [done |-> TRUE,
                   ab |-> diff_snapshot_item(item_a, item_b),
                   vb |-> diff_snapshot_item(item_v, item_b),
                   ba |-> diff_snapshot_item(item_b, item_a),
                   bv |-> diff_snapshot_item(item_b, item_v)]
    /\ UNCHANGED <<db, ingest_vars, last_diff, classification, diff_vars,
                   item_a, item_b, item_v, modified_item, delta, event, client_vars>>

\* One usage of one part, and a snapshot for each of item_a, item_b and
\* item_v holding it as that usage's item.
RECURSIVE StoredItems(_, _)
StoredItems(s, items) ==
    IF items = <<>> THEN s
    ELSE LET item == items[Len(items)]
             before == create_snapshot(StoredItems(s, SubSeq(items, 1, Len(items) - 1)), 1, 1)
         IN  insert_snapshot_item(before, Len(before.snapshots), 1, item.quantity,
                                  item.attributes, item.checksum[1])

StoreItems ==
    /\ changes.done
    /\ db = EmptyStore
    /\ db' = StoredItems(
                create_bom_item(
                    create_part(
                        create_assembly(get_or_create_organization(EmptyStore, 1), 1, "A"),
                        1, <<"R", "1">>, EmptyMap),
                    1, 1, EmptyMap),
                <<item_a, item_b, item_v>>)
    /\ UNCHANGED <<ingest_vars, last_diff, classification, diff_vars, pure_vars, client_vars>>

(***************************************************************************)
(* Inputs.                                                                 *)
(***************************************************************************)
Txt_R1 == <<"R", "1">>
Txt_10k == <<"1", "0", "k">>
Txt_12k == <<"1", "2", "k">>
Txt_22k == <<"2", "2", "k">>
Txt_0603 == <<"0", "6", "0", "3">>
Txt_D1 == <<"D", "1">>
Txt_D2 == <<"D", "2">>

Value(v) == "value" :> v
ValuePackage(v, p) == ("value" :> v) @@ ("package" :> p)
Refdes(r) == "reference_designator" :> r

\* A NormalizedRow without its row_index.
Template(part_name, quantity, attributes, context) ==
    [part_name |-> part_name, quantity |-> quantity, attributes |-> attributes,
     context |-> context]

\* rows as a caller enumerating its file builds them: row_index is the position.
Indexed(templates) ==
    [i \in 1..Len(templates) |->
        [part_name |-> templates[i].part_name, quantity |-> templates[i].quantity,
         attributes |-> templates[i].attributes, context |-> templates[i].context,
         row_index |-> i - 1]]

RowLists(pool, n) == {Indexed(ts) : ts \in UNION {[1..k -> pool] : k \in 0..n}}

OrgIds == {1, 2}
AssemblyIdArgs == {None, Some(1), Some(2)}
AssemblyNameArgs == {None, Some("A")}

\* Rows of the faulty-store specification: two parts, too far apart to match.
FaultPool ==
    {Template(Txt_R1, Some(1), Value(Txt_10k), Refdes(Txt_D1)),
     Template(Txt_R1, Some(2), Value(Txt_22k), Refdes(Txt_D2))}

(***************************************************************************)
(* Spec: one client, a store whose every call may raise, two               *)
(* organizations, assemblies by id and by name.                            *)
(***************************************************************************)
Step(fail) ==
    \/ BeginTransaction(fail)
    \/ GetOrCreateOrganization(fail)
    \/ GetAssemblyById(fail)
    \/ GetOrCreateAssembly(fail)
    \/ FindSimilarParts(fail)
    \/ CreatePart(fail)
    \/ FindSimilarBomItems(fail)
    \/ CreateBomItem(fail)
    \/ CreateSnapshot(fail)
    \/ InsertSnapshotItem(fail)
    \/ CommitTransaction(fail)

Diff == \E a \in 1..Len(db.snapshots), b \in 1..Len(db.snapshots) : DiffSnapshots(a, b)

Next ==
    \/ \E org \in OrgIds, aid \in AssemblyIdArgs, aname \in AssemblyNameArgs,
          rows \in RowLists(FaultPool, MaxFaultRows) :
            Call(org, aid, aname, rows)
    \/ \E fail \in BOOLEAN : Step(fail)
    \/ ExceptHandler
    \/ Diff

Spec == Init /\ [][Next]_vars

(***************************************************************************)
(* SpecResolve: a store that never fails, one organization, one assembly   *)
(* found by name; rows of one part name that differ in their part          *)
(* attributes.                                                             *)
(***************************************************************************)
ResolvePool ==
    {Template(Txt_R1, Some(1), Value(Txt_10k), EmptyMap),
     Template(Txt_R1, Some(1), ValuePackage(Txt_10k, Txt_0603), EmptyMap),
     Template(Txt_R1, Some(1), ValuePackage(Txt_22k, Txt_0603), EmptyMap),
     Template(Txt_R1, Some(1), Value(Txt_22k), EmptyMap)}

ReliableStep ==
    \/ BeginTransaction(FALSE)
    \/ GetOrCreateOrganization(FALSE)
    \/ GetOrCreateAssembly(FALSE)
    \/ FindSimilarParts(FALSE)
    \/ CreatePart(FALSE)
    \/ FindSimilarBomItems(FALSE)
    \/ CreateBomItem(FALSE)
    \/ CreateSnapshot(FALSE)
    \/ InsertSnapshotItem(FALSE)
    \/ CommitTransaction(FALSE)

NextResolve ==
    \/ \E rows \in RowLists(ResolvePool, MaxRows) : Call(1, None, Some("A"), rows)
    \/ ReliableStep
    \/ pc = "idle" /\ Diff

SpecResolve == Init /\ [][NextResolve]_vars

(***************************************************************************)
(* SpecAggregate: the same, with rows of one part that differ in quantity  *)
(* and reference designator.                                               *)
(***************************************************************************)
AggregatePool ==
    {Template(Txt_R1, None, Value(Txt_10k), EmptyMap),
     Template(Txt_R1, Some(0), Value(Txt_10k), Refdes(Txt_D1)),
     Template(Txt_R1, Some(1), Value(Txt_10k), Refdes(Txt_D1)),
     Template(Txt_R1, Some(1), Value(Txt_10k), Refdes(Txt_D2))}

NextAggregate ==
    \/ \E rows \in RowLists(AggregatePool, MaxRows) : Call(1, None, Some("A"), rows)
    \/ ReliableStep
    \/ pc = "idle" /\ Diff

SpecAggregate == Init /\ [][NextAggregate]_vars

(***************************************************************************)
(* Properties. A call is over when pc = "idle" and outcome is not          *)
(* NoOutcome; exc is the exception the try block raised, if any.           *)
(***************************************************************************)
BodyCalls ==
    {"get_or_create_organization", "get_assembly_by_id", "get_or_create_assembly",
     "find_similar_parts", "create_part", "find_similar_bom_items",
     "create_bom_item", "create_snapshot", "insert_snapshot_item"}

Count(seq, x) == Cardinality({i \in 1..Len(seq) : seq[i] = x})

UsagesOf(s, snapshot) ==
    {s.snapshot_items[i].bom_item_id :
        i \in {j \in 1..Len(s.snapshot_items) : s.snapshot_items[j].snapshot_id = snapshot}}

Range(seq) == {seq[i] : i \in 1..Len(seq)}

\* C1: when a store call between begin_transaction and commit_transaction
\* raises, rollback_transaction is the last store call of the ingestion and
\* the committed tables are those from before the call; the committed tables
\* change only when a call returns, and every committed snapshot is the
\* snapshot of a call that returned and holds an item for each usage that
\* call resolved its rows to.
C1_FailureRollsBack ==
    /\ (pc = "idle" /\ outcome.kind = "raised" /\ exc.at \in BodyCalls)
        => /\ calls[Len(calls)] = "rollback_transaction"
           /\ db = db0
    /\ (db # db0) => (pc = "idle" /\ outcome.kind = "returned")
    /\ Len(db.snapshots) = Len(ingests)
    /\ \A k \in 1..Len(ingests) :
        /\ ingests[k].snapshot_id = k
        /\ UsagesOf(db, k) = Range(ingests[k].bom_item_mappings)

\* An insert_snapshot_item raised after an earlier one of the same call had
\* written an item, in a store that already holds a committed snapshot.
C1_Witness ==
    /\ pc = "idle"
    /\ outcome = Raised(StoreError("insert_snapshot_item"))
    /\ Count(calls, "insert_snapshot_item") = 2
    /\ Len(db.snapshots) = 1

\* C2: the error that reaches the caller is the error the store call raised
\* in the try block.
C2_OriginalErrorReachesCaller ==
    (pc = "idle" /\ outcome.kind = "raised" /\ exc # NoExc) => outcome.exc = exc

\* C3: with empty rows, with both assembly_id and assembly_name, or with
\* neither, the call raises ValueError and has made no store call; such
\* arguments never get past the checks.
C3_InvalidArgumentsFailFast ==
    (/\ args # NoArgs
     /\ \/ args.rows = <<>>
        \/ args.assembly_id = None /\ args.assembly_name = None
        \/ args.assembly_id # None /\ args.assembly_name # None)
    => /\ pc = "idle"
       /\ outcome = Raised(Exc("ValueError", "arguments"))
       /\ calls = <<>>
       /\ db = db0

\* Both assembly_id and assembly_name supplied, with rows, after an ingestion
\* that committed.
C3_Witness ==
    /\ pc = "idle"
    /\ args.assembly_id # None /\ args.assembly_name # None /\ args.rows # <<>>
    /\ outcome = Raised(Exc("ValueError", "arguments"))
    /\ calls = <<>>
    /\ Len(db.snapshots) = 1

\* The assembly_id of the call names no assembly of the organization in the
\* tables the call started from.
AssemblyMissing ==
    /\ args.assembly_id # None /\ args.assembly_name = None /\ args.rows # <<>>
    /\ \/ args.assembly_id[1] > Len(db0.assemblies)
       \/ db0.assemblies[args.assembly_id[1]].org_id # args.org_id

AssemblyLookupCalls ==
    <<"begin_transaction", "get_or_create_organization", "get_assembly_by_id",
      "rollback_transaction">>

\* C4, as stated: the ValueError for an assembly_id that is missing or owned
\* by another organization is raised before any store interaction.
C4_FailsBeforeAnyStoreCall ==
    (pc = "idle" /\ outcome = Raised(Exc("ValueError", "get_assembly_by_id")))
        => calls = <<>>

\* C4, amended: with such an assembly_id the call never gets past
\* get_assembly_by_id (no part, usage or snapshot call is made), it raises,
\* the committed tables are those from before the call, and unless a store
\* call fails the error is the ValueError of get_assembly_by_id, raised after
\* begin_transaction and get_or_create_organization and followed by
\* rollback_transaction.
C4_FailsAtAssemblyLookup ==
    AssemblyMissing =>
        /\ pc \in {"idle", "begin_transaction", "get_or_create_organization",
                   "get_assembly_by_id", "except"}
        /\ Range(calls) \subseteq Range(AssemblyLookupCalls)
        /\ db = db0
        /\ (pc = "idle" /\ outcome.kind # "none") =>
            /\ outcome.kind = "raised"
            /\ outcome.exc.type # "StoreError"
                => /\ outcome.exc = Exc("ValueError", "get_assembly_by_id")
                   /\ calls = AssemblyLookupCalls

\* The assembly exists and belongs to the other organization.
C4_Witness ==
    /\ pc = "idle"
    /\ outcome = Raised(Exc("ValueError", "get_assembly_by_id"))
    /\ args.assembly_id[1] <= Len(db.assemblies)
    /\ db.assemblies[args.assembly_id[1]].org_id # args.org_id
    /\ calls = AssemblyLookupCalls

SnapshotsOf(s, a) == {k \in 1..Len(s.snapshots) : s.snapshots[k].assembly_id = a}
IngestsInto(a) == {k \in 1..Len(ingests) : ingests[k].assembly_id = a}

\* C5: a call that returns has added exactly one snapshot to the committed
\* tables, the one whose id it returns, for the assembly it resolved and the
\* organization it was called for; every assembly has as many snapshots as
\* ingestions into it returned, under distinct ids.
C5_OneSnapshotPerIngestion ==
    /\ (pc = "idle" /\ outcome.kind = "returned") =>
        /\ Len(db.snapshots) = Len(db0.snapshots) + 1
        /\ outcome.snapshot_id = Len(db.snapshots)
        /\ db.snapshots[outcome.snapshot_id] =
                [org_id |-> args.org_id, assembly_id |-> assembly_id]
        /\ db.assemblies[assembly_id].org_id = args.org_id
        /\ IF args.assembly_id # None
           THEN assembly_id = args.assembly_id[1]
           ELSE db.assemblies[assembly_id].name = args.assembly_name[1]
    /\ \A a \in 1..Len(db.assemblies) :
        Cardinality(SnapshotsOf(db, a)) = Cardinality(IngestsInto(a))
    /\ \A j, k \in 1..Len(ingests) :
        j # k => ingests[j].snapshot_id # ingests[k].snapshot_id

\* The second of two ingestions of the same rows into one assembly returned.
C5_Witness ==
    /\ pc = "idle"
    /\ outcome = Returned(2)
    /\ Len(ingests) = 2
    /\ ingests[1].rows = ingests[2].rows
    /\ ingests[1].assembly_id = ingests[2].assembly_id

\* C6: no step changes a committed snapshot or the items of a committed
\* snapshot, and every insert_snapshot_item writes to the snapshot that the
\* same call created, which is not committed yet, leaving the items the
\* transaction sees for every other snapshot as they are.
C6_CommittedSnapshotsImmutable ==
    [][/\ \A k \in 1..Len(db.snapshots) :
            /\ Len(db'.snapshots) >= k
            /\ db'.snapshots[k] = db.snapshots[k]
            /\ get_snapshot_items(db', k) = get_snapshot_items(db, k)
       /\ (pc = "insert_snapshot_item" /\ Len(calls') > Len(calls)
                /\ pc' # "except") =>
            /\ snapshot_id = Len(db.snapshots) + 1
            /\ Count(calls, "create_snapshot") = 1
            /\ tx'.snapshots = tx.snapshots
            /\ Len(get_snapshot_items(tx', snapshot_id))
                    = Len(get_snapshot_items(tx, snapshot_id)) + 1
            /\ \A k \in 1..Len(db.snapshots) :
                    get_snapshot_items(tx', k) = get_snapshot_items(db, k)
      ]_vars

\* Two committed snapshots of one assembly share a usage, and a diff of them
\* has run.
C6_Witness ==
    /\ pc = "idle"
    /\ Len(ingests) = 2
    /\ ingests[1].assembly_id = ingests[2].assembly_id
    /\ Range(ingests[1].bom_item_mappings) \cap Range(ingests[2].bom_item_mappings) # {}
    /\ last_diff.snapshot_a_id = 1 /\ last_diff.snapshot_b_id = 2

\* The items of a snapshot without their snapshot id.
ItemsOf(s, snapshot) ==
    LET items == get_snapshot_items(s, snapshot)
    IN  {[bom_item_id |-> items[i].bom_item_id, quantity |-> items[i].quantity,
          attributes |-> items[i].attributes, checksum |-> items[i].checksum] :
            i \in 1..Len(items)}

\* The last two ingestions that returned went into the same assembly, and no
\* call is running.
TwoIngestions ==
    /\ pc = "idle"
    /\ Len(ingests) = 2
    /\ ingests[1].assembly_id = ingests[2].assembly_id

\* C7: the second of two ingestions of identical rows into one assembly
\* creates no part and no usage, resolves every row to the usage the first
\* run resolved it to, and writes the same items under a new snapshot id.
C7_RerunIsIdempotent ==
    (TwoIngestions /\ ingests[1].rows = ingests[2].rows) =>
        /\ Len(db.parts) = ingests[2].parts_before
        /\ Len(db.bom_items) = ingests[2].bom_items_before
        /\ ingests[2].bom_item_mappings = ingests[1].bom_item_mappings
        /\ ItemsOf(db, ingests[2].snapshot_id) = ItemsOf(db, ingests[1].snapshot_id)
        /\ ingests[2].snapshot_id # ingests[1].snapshot_id

\* Row i is the one row in which the two row lists differ, and it differs in
\* its quantity and/or its reference designator only.
WithoutRefdes(context) == Restrict(context, DOMAIN context \ {"reference_designator"})

OnlyRowChanged(rows_a, rows_b, i) ==
    /\ Len(rows_a) = Len(rows_b)
    /\ \A j \in 1..Len(rows_a) : j # i => rows_a[j] = rows_b[j]
    /\ rows_a[i] # rows_b[i]
    /\ rows_a[i].part_name = rows_b[i].part_name
    /\ rows_a[i].attributes = rows_b[i].attributes
    /\ WithoutRefdes(rows_a[i].context) = WithoutRefdes(rows_b[i].context)

\* The sum of the non-null quantities of the rows with index in idxs.
RECURSIVE SumQuantities(_, _)
SumQuantities(rows, idxs) ==
    IF idxs = {} THEN 0
    ELSE LET i == CHOOSE x \in idxs : TRUE
         IN  QuantityOrZero(rows[i].quantity) + SumQuantities(rows, idxs \ {i})

RowsOfUsage(ingest, u) ==
    {i \in 1..Len(ingest.rows) : ingest.bom_item_mappings[i] = u}

\* The quantity the rows of a usage add up to: null when none of them has one.
SummedQuantity(ingest, u) ==
    IF \A i \in RowsOfUsage(ingest, u) : ingest.rows[i].quantity = None
    THEN None
    ELSE Some(SumQuantities(ingest.rows, RowsOfUsage(ingest, u)))

\* C8: when one row of the second ingestion differs from the first ingestion
\* in its quantity and/or reference designator only, both ingestions resolve
\* the row to the same usage and the diff of the two snapshots has no added
\* item, no removed item and one modified item, that usage, which carries a
\* QUANTITY_CHANGED from the old to the new quantity as floats when the
\* quantity of the row differs.
C8_QuantityOrRefdesChangeIsOneModifiedItem ==
    (/\ TwoIngestions
     /\ last_diff.snapshot_a_id = ingests[1].snapshot_id
     /\ last_diff.snapshot_b_id = ingests[2].snapshot_id) =>
        \A i \in 1..Len(ingests[1].rows) :
            OnlyRowChanged(ingests[1].rows, ingests[2].rows, i) =>
                LET u == ingests[2].bom_item_mappings[i]
                IN  /\ ingests[1].bom_item_mappings[i] = u
                    /\ last_diff.added_items = {}
                    /\ last_diff.removed_items = {}
                    /\ Len(last_diff.modified_items) = 1
                    /\ last_diff.modified_items[1].bom_item_id = u
                    /\ ingests[1].rows[i].quantity # ingests[2].rows[i].quantity =>
                        FieldChange("QUANTITY_CHANGED", None,
                                    QuantityAsFloat(SummedQuantity(ingests[1], u)),
                                    QuantityAsFloat(SummedQuantity(ingests[2], u)))
                            \in last_diff.modified_items[1].changes

\* The score of a row against a stored part.
PartScore(row, p) ==
    combined_score(row.part_name, _extract_part_attributes(row), db.parts[p])

\* Two rows that differ in their part attributes only.
SpecAttributesChanged(row_a, row_b) ==
    /\ row_a.part_name = row_b.part_name
    /\ row_a.quantity = row_b.quantity
    /\ row_a.context = row_b.context
    /\ row_a.attributes # row_b.attributes

C10_OneItemPerUsageWithSummedQuantity ==
    \A k \in 1..Len(ingests) :
        /\ UsagesOf(db, ingests[k].snapshot_id) = Range(ingests[k].bom_item_mappings)
        /\ \A u \in Range(ingests[k].bom_item_mappings) :
            LET hits == {it \in ItemsOf(db, ingests[k].snapshot_id) : it.bom_item_id = u}
            IN  /\ Cardinality(hits) = 1
                /\ SummedQuantity(ingests[k], u) # None
                    => \A it \in hits : it.quantity = SummedQuantity(ingests[k], u)

\* The score of the row being resolved against a part of the transaction's
\* view.
RowScore(p) ==
    combined_score(args.rows[row_i].part_name,
                   _extract_part_attributes(args.rows[row_i]), tx.parts[p])

\* The parts of the call's organization in the transaction's view.
OrgParts == {p \in 1..Len(tx.parts) : tx.parts[p].org_id = org_id}

\* One _resolve_or_create_part call, from find_similar_parts to its return.
PartResolution ==
    /\ (pc = "find_similar_parts" /\ pc' = "find_similar_bom_items")
        => /\ part_id' \in OrgParts
           /\ RGeq(RowScore(part_id'), <<8, 10>>)
           /\ \A q \in OrgParts : RGeq(RowScore(part_id'), RowScore(q))
           /\ tx'.parts = tx.parts
    /\ (pc = "find_similar_parts" /\ pc' = "create_part")
        => /\ \A q \in OrgParts : ~RGeq(RowScore(q), <<8, 10>>)
           /\ tx'.parts = tx.parts
    /\ (pc = "create_part" /\ pc' = "find_similar_bom_items")
        => /\ \A q \in OrgParts : ~RGeq(RowScore(q), <<8, 10>>)
           /\ tx'.parts = Append(tx.parts,
                                 [org_id |-> org_id,
                                  name |-> args.rows[row_i].part_name,
                                  attributes |-> _extract_part_attributes(args.rows[row_i])])
           /\ part_id' = Len(tx.parts) + 1

\* C26: _resolve_or_create_part returns a stored part only when that part is
\* of the call's organization, scores at least 0.8 against the row and no
\* part of the organization scores higher, and then creates nothing; when no
\* part of the organization scores 0.8 it creates one part with the row's
\* name and part attributes and returns that.
C26_PartReusedOnlyIfBestAndSimilar == [][PartResolution]_vars

\* A row was resolved to a stored part of another spelling while a second
\* part scored at least 0.8 too, but lower.
C26_Witness ==
    /\ pc = "find_similar_bom_items"
    /\ tx.parts[part_id].attributes # _extract_part_attributes(args.rows[row_i])
    /\ \E q \in OrgParts :
        /\ RGeq(RowScore(q), <<8, 10>>)
        /\ RGt(RowScore(part_id), RowScore(q))

\* The step of ingest_bom_snapshot a store call belongs to.
StepOf(call) ==
    CASE call = "begin_transaction" -> 0
      [] call = "get_or_create_organization" -> 1
      [] call \in {"get_assembly_by_id", "get_or_create_assembly"} -> 2
      [] call \in {"find_similar_parts", "create_part",
                   "find_similar_bom_items", "create_bom_item"} -> 3
      [] call = "create_snapshot" -> 4
      [] call = "insert_snapshot_item" -> 5
      [] call = "commit_transaction" -> 6
      [] call = "rollback_transaction" -> 7

\* The store calls that may come right before a call of the row loop.
BeforeInLoop(call) ==
    CASE call = "find_similar_parts"
            -> {"get_assembly_by_id", "get_or_create_assembly",
                "find_similar_bom_items", "create_bom_item"}
      [] call = "create_part" -> {"find_similar_parts"}
      [] call = "find_similar_bom_items" -> {"find_similar_parts", "create_part"}
      [] call = "create_bom_item" -> {"find_similar_bom_items"}

\* C28: the store calls of one ingest_bom_snapshot call, in the order made:
\* begin_transaction first; the organization and then the assembly, once
\* each; for each row, in input order, find_similar_parts, create_part if
\* needed, find_similar_bom_items, create_bom_item if needed;
\* create_snapshot once, after the usage of every row is resolved; every
\* insert_snapshot_item after it; commit_transaction after one insert per
\* resolved usage; and no rollback_transaction in a call that returns.
C28_StoreCallOrder ==
    /\ calls # <<>> => calls[1] = "begin_transaction"
    /\ \A i \in 1..Len(calls), j \in 1..Len(calls) :
            i < j => /\ StepOf(calls[i]) <= StepOf(calls[j])
                     /\ StepOf(calls[i]) = StepOf(calls[j]) => StepOf(calls[i]) \in {3, 5}
    /\ \A i \in 1..Len(calls) :
            /\ StepOf(calls[i]) = 3 => (i > 1 /\ calls[i - 1] \in BeforeInLoop(calls[i]))
            /\ calls[i] = "get_or_create_organization" => calls[i - 1] = "begin_transaction"
            /\ StepOf(calls[i]) = 2 => calls[i - 1] = "get_or_create_organization"
    /\ pc = "find_similar_parts" => Count(calls, "find_similar_parts") = row_i - 1
    /\ pc = "find_similar_bom_items" => Count(calls, "find_similar_bom_items") = row_i - 1
    /\ Count(calls, "create_snapshot") = 1
        => /\ Count(calls, "find_similar_parts") = Len(args.rows)
           /\ Count(calls, "find_similar_bom_items") = Len(args.rows)
           /\ Len(bom_item_mappings) = Len(args.rows)
    /\ Count(calls, "commit_transaction") = 1
        => /\ Count(calls, "create_snapshot") = 1
           /\ Count(calls, "insert_snapshot_item") = Cardinality(Range(bom_item_mappings))
    /\ outcome.kind = "returned"
        => /\ calls[Len(calls)] = "commit_transaction"
           /\ Count(calls, "rollback_transaction") = 0

\* A call with two rows of two parts returned a snapshot id after fifteen
\* store calls: two parts and two usages created, two items inserted.
C28_Witness ==
    /\ outcome.kind = "returned"
    /\ Len(args.rows) = 2
    /\ calls = <<"begin_transaction", "get_or_create_organization", "get_or_create_assembly",
                 "find_similar_parts", "create_part", "find_similar_bom_items",
                 "create_bom_item",
                 "find_similar_parts", "create_part", "find_similar_bom_items",
                 "create_bom_item",
                 "create_snapshot", "insert_snapshot_item", "insert_snapshot_item",
                 "commit_transaction">>

\* C11: the item of a usage carries, in its reference_designator, the
\* designator of every row of the ingestion that resolved to that usage and
\* has a non-empty one.
C11_RefdesAccumulated ==
    \A k \in 1..Len(ingests) :
        \A i \in 1..Len(ingests[k].rows) :
            LET row == ingests[k].rows[i]
                u == ingests[k].bom_item_mappings[i]
            IN  Truthy(row.context, "reference_designator")
                    => \A it \in ItemsOf(db, ingests[k].snapshot_id) :
                            it.bom_item_id = u
                                => /\ "reference_designator" \in DOMAIN it.attributes
                                   /\ Contains(it.attributes["reference_designator"],
                                               row.context["reference_designator"])

\* A row without its row_index.
WithoutIndex(row) ==
    [part_name |-> row.part_name, quantity |-> row.quantity,
     attributes |-> row.attributes, context |-> row.context]

\* The rows of the two ingestions are the same rows up to their order and
\* row_index, and each usage got the same rows in both.
SameRowsPerUsage ==
    /\ Len(ingests[1].rows) = Len(ingests[2].rows)
    /\ \A u \in Range(ingests[1].bom_item_mappings) \cup Range(ingests[2].bom_item_mappings) :
        \A c \in {WithoutIndex(ingests[1].rows[i]) : i \in 1..Len(ingests[1].rows)} :
            Cardinality({i \in RowsOfUsage(ingests[1], u) : WithoutIndex(ingests[1].rows[i]) = c})
                = Cardinality({i \in RowsOfUsage(ingests[2], u) : WithoutIndex(ingests[2].rows[i]) = c})

\* C12: when two ingestions into one assembly got the same rows for every
\* usage, in any order and under any row_index, each usage's item has the same
\* checksum in both snapshots and the diff of the two snapshots has no
\* modified item.
C12_ChecksumIgnoresRowIndex ==
    (TwoIngestions /\ SameRowsPerUsage)
        => /\ \A it1 \in ItemsOf(db, ingests[1].snapshot_id) :
                \A it2 \in ItemsOf(db, ingests[2].snapshot_id) :
                    it1.bom_item_id = it2.bom_item_id => it1.checksum = it2.checksum
           /\ (/\ last_diff # NoDiff
               /\ last_diff.snapshot_a_id = ingests[1].snapshot_id
               /\ last_diff.snapshot_b_id = ingests[2].snapshot_id)
                => last_diff.modified_items = <<>>

(***************************************************************************)
(* _classify_delta on its own: every ItemDelta over two attribute names.   *)
(***************************************************************************)
ChangedAttributeNames == {"value", "color"}

\* quantity_changed with quantity_from and quantity_to: unchanged, changed
\* between a null and a number (no values kept), changed from 1.0 to 2.0.
QuantityDeltas ==
    {<<FALSE, None, None>>, <<TRUE, None, None>>, <<TRUE, Some(1), Some(2)>>}

ItemDeltas ==
    {[ItemDelta(1) EXCEPT !.added = f[1], !.removed = f[2],
                          !.manufacturer_changed = f[3], !.mpn_changed = f[4],
                          !.reference_designator_changed = f[5],
                          !.quantity_changed = q[1], !.quantity_from = q[2],
                          !.quantity_to = q[3], !.changed_attributes = names] :
        f \in [1..5 -> BOOLEAN], q \in QuantityDeltas,
        names \in SUBSET ChangedAttributeNames}

InitClassify ==
    /\ db = EmptyStore
    /\ NoIngest
    /\ NoClients
    /\ NoDiffCall
    /\ NoItems
    /\ modified_item = NoModified
    /\ delta \in ItemDeltas
    /\ event = NoEvent

NextClassify == ClassifyDelta

SpecClassify == InitClassify /\ [][NextClassify]_vars

\* C17: for an ItemDelta with any change _classify_delta returns an event,
\* and it is UNCLASSIFIED_CHANGE when only mpn_changed is set or only
\* attributes outside the spec keys changed.
C17_ClassificationTotal ==
    (/\ event.returned
     /\ \/ delta.added \/ delta.removed \/ delta.quantity_changed
        \/ delta.manufacturer_changed \/ delta.mpn_changed
        \/ delta.reference_designator_changed \/ delta.changed_attributes # {})
        => /\ event.value # None
           /\ Len(event.value) = 1
           /\ (/\ ~delta.added /\ ~delta.removed /\ ~delta.quantity_changed
               /\ ~delta.manufacturer_changed /\ ~delta.reference_designator_changed
               /\ delta.changed_attributes \cap SPEC_ATTRIBUTE_KEYS = {})
                => event.value[1].event_type = "UNCLASSIFIED_CHANGE"

\* Only mpn_changed is set, and the event is the fallback's.
C17_Witness ==
    /\ event.returned
    /\ delta = [ItemDelta(1) EXCEPT !.mpn_changed = TRUE]
    /\ event.value # None
    /\ event.value[1].event_type = "UNCLASSIFIED_CHANGE"

\* The table of section 4.4: type, severity and domains of each rule.
RuleTable ==
    <<[event_type |-> "PART_ADDED", severity |-> "HIGH",
       domains |-> {"ENGINEERING", "PROCUREMENT"}],
      [event_type |-> "PART_REMOVED", severity |-> "HIGH",
       domains |-> {"ENGINEERING", "PROCUREMENT"}],
      [event_type |-> "PART_SUBSTITUTED", severity |-> "HIGH",
       domains |-> {"PROCUREMENT", "ENGINEERING"}],
      [event_type |-> "MANUFACTURER_CHANGED", severity |-> "MEDIUM",
       domains |-> {"PROCUREMENT"}],
      [event_type |-> "QUANTITY_CHANGED", severity |-> "MEDIUM",
       domains |-> {"PROCUREMENT", "MANUFACTURING"}],
      [event_type |-> "REFERENCE_DESIGNATOR_CHANGED", severity |-> "LOW",
       domains |-> {"MANUFACTURING"}],
      [event_type |-> "SPEC_ATTRIBUTE_CHANGED", severity |-> "MEDIUM",
       domains |-> {"ENGINEERING"}],
      [event_type |-> "UNCLASSIFIED_CHANGE", severity |-> "LOW",
       domains |-> {}]>>

\* The first rule of the table whose condition holds on d.
FirstRule(d) ==
    IF d.added THEN 1
    ELSE IF d.removed THEN 2
    ELSE IF d.manufacturer_changed /\ d.mpn_changed THEN 3
    ELSE IF d.manufacturer_changed /\ ~d.mpn_changed THEN 4
    ELSE IF d.quantity_changed THEN 5
    ELSE IF d.reference_designator_changed THEN 6
    ELSE IF d.changed_attributes \cap SPEC_ATTRIBUTE_KEYS # {} THEN 7
    ELSE 8

\* C18: the event _classify_delta returns for an ItemDelta with any change
\* has the type, the severity and the domains of the first rule of the table
\* whose condition holds, and is an event about that delta's item.
C18_FirstMatchingRuleWins ==
    (event.returned /\ event.value # None)
        => LET e == event.value[1]
               rule == RuleTable[FirstRule(delta)]
           IN  /\ e.event_type = rule.event_type
               /\ e.severity = rule.severity
               /\ Range(e.affected_domains) = rule.domains
               /\ Len(e.affected_domains) = Cardinality(rule.domains)
               /\ e.bom_item_id = delta.bom_item_id
               /\ e.evidence = delta.field_changes

\* reference_designator_changed with changed_attributes = {value}: the
\* refdes rule won over the spec rule.
C18_Witness ==
    /\ event.returned
    /\ delta = [ItemDelta(1) EXCEPT !.reference_designator_changed = TRUE,
                                     !.changed_attributes = {"value"}]
    /\ event.value # None
    /\ event.value[1].event_type = "REFERENCE_DESIGNATOR_CHANGED"
    /\ event.value[1].severity = "LOW"

(***************************************************************************)
(* The checksum and the item diff on their own.                            *)
(***************************************************************************)
Txt_D1_D2 == <<"D", "1", " ", "D", "2">>
Txt_f == <<"f">>

\* The attribute maps of item_a: a designator or none, a row_index or none.
ItemAttributes ==
    {EmptyMap, Refdes(Txt_D1), Refdes(Txt_D1_D2),
     "row_index" :> 0, Refdes(Txt_D1) @@ ("row_index" :> 0),
     Refdes(Txt_D1_D2) @@ ("row_indices" :> <<0, 1>>),
     Refdes(Txt_D1_D2) @@ ("row_index" :> 0) @@ ("row_indices" :> <<0, 1>>)}

ItemStates ==
    {[quantity |-> q, attributes |-> attrs, order |-> o, checksum |-> None] :
        q \in {Some(1), Some(2)}, attrs \in ItemAttributes,
        o \in UNION {Orders(DOMAIN a) : a \in ItemAttributes}}

InitChecksum ==
    /\ db = EmptyStore
    /\ NoIngest
    /\ NoClients
    /\ NoDiffCall
    /\ NoDeltas
    /\ item_a \in {i \in ItemStates : i.order \in Orders(DOMAIN i.attributes)}
    /\ item_b \in {i \in ItemStates :
                    /\ i.order = SortKeys(DOMAIN i.attributes)
                    /\ i.attributes \in {EmptyMap, Refdes(Txt_D1),
                                          Refdes(Txt_D1_D2) @@ ("row_indices" :> <<0, 1>>)}}
    /\ item_v = item_a
    /\ changes = NoChanges

NextChecksum ==
    \/ SetNonSemanticKey("row_index", 0)
    \/ SetNonSemanticKey("row_index", 1)
    \/ SetNonSemanticKey("source_file", Txt_f)
    \/ \E order \in Orders(DOMAIN item_v.attributes) : ReorderKeys(order)
    \/ PadValue("reference_designator")
    \/ ComputeChecksums
    \/ DiffItems
    \/ StoreItems
    \/ \E x \in {1, 3}, y \in {2, 3} : x # y /\ db # EmptyStore /\ DiffSnapshots(x, y)

SpecChecksum == InitChecksum /\ [][NextChecksum]_vars

\* The semantic part of an item: its quantity, its attributes outside the
\* non-semantic set and the order those were inserted in.
SemanticPart(item) ==
    [quantity |-> item.quantity,
     attributes |-> Restrict(item.attributes,
                             DOMAIN item.attributes \ NON_SEMANTIC_ATTRIBUTE_KEYS),
     order |-> SelectSeq(item.order, IsSemanticKey)]

FieldsOf(field_changes) == {c.field[1] : c \in {x \in field_changes : x.field # None}}

\* C13: when item_v is item_a with keys of the non-semantic set added or
\* changed, both get the same checksum and diff_snapshot_item returns for
\* item_v what it returns for item_a, on either side; and no FieldChange of
\* diff_snapshot_item or of diff_snapshots names a key of that set.
C13_NonSemanticKeysIsolated ==
    /\ (SemanticPart(item_v) = SemanticPart(item_a))
        => /\ item_v.checksum = item_a.checksum
           /\ changes.vb = changes.ab
           /\ changes.bv = changes.ba
    /\ FieldsOf(changes.ab \cup changes.vb \cup changes.ba \cup changes.bv)
            \cap NON_SEMANTIC_ATTRIBUTE_KEYS = {}
    /\ \A i \in 1..Len(last_diff.modified_items) :
            FieldsOf(last_diff.modified_items[i].changes)
                \cap NON_SEMANTIC_ATTRIBUTE_KEYS = {}

\* row_index was added to item_v and source_file set, the checksums are
\* computed and the items, which differ from item_b, were diffed and stored.
C13_Witness ==
    /\ changes.done
    /\ item_v.checksum # None
    /\ SemanticPart(item_v) = SemanticPart(item_a)
    /\ "row_index" \in DOMAIN item_v.attributes \ DOMAIN item_a.attributes
    /\ "source_file" \in DOMAIN item_v.attributes
    /\ changes.vb # {}
    /\ last_diff.snapshot_a_id = 3 /\ last_diff.snapshot_b_id = 2
    /\ last_diff.modified_items # <<>>

\* ' '.join(value.split()) of a str value.
Collapsed(key, value) == IF IsStrKey(key) THEN Join(Split(value, 1, <<>>)) ELSE value

\* C14: two items with the same quantity and the same semantic keys, whose
\* values are equal up to leading, trailing and repeated spaces, get the
\* same checksum whatever the insertion order of their keys.
C14_ChecksumOfCanonicalAttributes ==
    (/\ item_v.checksum # None
     /\ item_v.quantity = item_a.quantity
     /\ DOMAIN item_v.attributes \ NON_SEMANTIC_ATTRIBUTE_KEYS
            = DOMAIN item_a.attributes \ NON_SEMANTIC_ATTRIBUTE_KEYS
     /\ \A k \in DOMAIN item_a.attributes \ NON_SEMANTIC_ATTRIBUTE_KEYS :
            Collapsed(k, item_v.attributes[k]) = Collapsed(k, item_a.attributes[k]))
        => item_v.checksum = item_a.checksum

\* item_v has its two semantic keys in the other order and its designator
\* padded, and got the checksum of item_a.
C14_Witness ==
    /\ item_v.checksum # None
    /\ item_v.checksum = item_a.checksum
    /\ DOMAIN item_a.attributes = {"reference_designator", "row_indices"}
    /\ DOMAIN item_v.attributes = DOMAIN item_a.attributes
    /\ item_v.order # item_a.order
    /\ item_v.attributes["reference_designator"] # item_a.attributes["reference_designator"]

\* The FieldChanges of a list about one attribute key.
ChangesAbout(field_changes, key) == {c \in field_changes : c.field = Some(key)}

ChangedFieldNames ==
    {"manufacturer_part_number", "MPN", "vendor_part_number", "manufacturer", "mfr",
     "reference_designator", "normalized_refdes", "Package_Size", "value", "color"}

AttributeChanges ==
    {FieldChange("ATTRIBUTE_CHANGED", Some(f), Some(Txt_10k), Some(Txt_22k)) :
        f \in ChangedFieldNames}
    \cup {FieldChange("ATTRIBUTE_ADDED", Some(f), None, Some(Txt_22k)) :
            f \in ChangedFieldNames}
    \cup {FieldChange("ATTRIBUTE_REMOVED", Some(f), Some(Txt_10k), None) :
            f \in ChangedFieldNames}

QuantityChanges ==
    {{}, {FieldChange("QUANTITY_CHANGED", None, Some(Float(1)), Some(Float(2)))}}

ModifiedItemInputs ==
    {[bom_item_id |-> 1, changes |-> {a, b} \cup q] :
        a \in AttributeChanges, b \in AttributeChanges, q \in QuantityChanges}

InitDelta ==
    /\ db = EmptyStore
    /\ NoIngest
    /\ NoClients
    /\ NoDiffCall
    /\ NoItems
    /\ modified_item \in ModifiedItemInputs
    /\ delta = NoDelta
    /\ event = NoEvent

NextDelta ==
    \/ ComputeItemDelta
    \/ ClassifyDelta

SpecDelta == InitDelta /\ [][NextDelta]_vars

\* A name of the set, or one of them inside the lower-cased field name.
NamesKey(f, names) == \E k \in names : Contains(Lower(Spell[f]), Spell[k])

\* The one classification of a changed attribute, the tests in the order
\* MPN, manufacturer, reference designator.
FieldClass(f) ==
    IF NamesKey(f, {"manufacturer_part_number", "mpn", "mfr_part_number", "part_number",
                    "vendor_part_number"})
    THEN "mpn_changed"
    ELSE IF NamesKey(f, {"manufacturer", "mfr", "vendor", "brand"})
    THEN "manufacturer_changed"
    ELSE IF NamesKey(f, {"reference_designator", "refdes", "designator"})
    THEN "reference_designator_changed"
    ELSE "changed_attributes"

\* The classes of the attribute changes of the ModifiedItem.
ClassesOfModified ==
    {FieldClass(c.field[1]) : c \in {x \in modified_item.changes : x.type # "QUANTITY_CHANGED"}}

\* C27: the ItemDelta of a ModifiedItem has mpn_changed, manufacturer_changed
\* and reference_designator_changed set exactly when an attribute change of
\* that one class is among the changes, the MPN test coming first, and
\* changed_attributes holds exactly the field names of no such class: every
\* attribute change has set one classification and no other.
C27_OneClassificationPerAttributeChange ==
    (modified_item # NoModified /\ delta # NoDelta)
        => /\ delta.mpn_changed = ("mpn_changed" \in ClassesOfModified)
           /\ delta.manufacturer_changed = ("manufacturer_changed" \in ClassesOfModified)
           /\ delta.reference_designator_changed
                = ("reference_designator_changed" \in ClassesOfModified)
           /\ delta.changed_attributes
                = {c.field[1] : c \in {x \in modified_item.changes :
                        /\ x.type # "QUANTITY_CHANGED"
                        /\ FieldClass(x.field[1]) = "changed_attributes"}}
           /\ (\E c \in modified_item.changes : c.field = Some("manufacturer_part_number"))
                => delta.mpn_changed
           /\ (\A c \in modified_item.changes :
                    c.field \in {None, Some("manufacturer_part_number")})
                => ~delta.manufacturer_changed

\* A change of manufacturer_part_number alone gave an ItemDelta with
\* mpn_changed set and manufacturer_changed not set.
C27_Witness ==
    /\ delta # NoDelta
    /\ \A c \in modified_item.changes : c.field = Some("manufacturer_part_number")
    /\ delta.mpn_changed
    /\ ~delta.manufacturer_changed
    /\ ~delta.reference_designator_changed
    /\ delta.changed_attributes = {}

(***************************************************************************)
(* diff_snapshots and classify_diff on two snapshots of one assembly with  *)
(* three usages: usages 1 and 2 of part 1, usage 3 of part 2.              *)
(***************************************************************************)
Txt_x == <<"x">>

DiffBase ==
    create_bom_item(
        create_bom_item(
            create_bom_item(
                create_part(
                    create_part(
                        create_assembly(get_or_create_organization(EmptyStore, 1), 1, "A"),
                        1, Txt_R1, Value(Txt_10k)),
                    1, Txt_R1, Value(Txt_22k)),
                1, 1, EmptyMap),
            1, 1, "notes" :> Txt_x),
        1, 2, EmptyMap)

\* What ingest_bom_snapshot writes for a usage: a quantity, the designator
\* and the row_index of its first row.
ItemVariants ==
    <<[quantity |-> Some(1), attributes |-> Refdes(Txt_D1) @@ ("row_index" :> 0)],
      [quantity |-> Some(2), attributes |-> Refdes(Txt_D1) @@ ("row_index" :> 0)],
      [quantity |-> Some(1), attributes |-> Refdes(Txt_D2) @@ ("row_index" :> 0)],
      [quantity |-> Some(1), attributes |-> Refdes(Txt_D1) @@ ("row_index" :> 1)]>>

\* A snapshot's content: for each usage 0 (no item) or the variant it has.
SnapshotContents ==
    {c \in [1..3 -> 0..4] : c[2] # 4 /\ c[3] \in 0..2}

\* create_snapshot, then insert_snapshot_item for the usages in this order.
RECURSIVE WithItems(_, _, _, _)
WithItems(s, snapshot, content, usages) ==
    IF usages = <<>> THEN s
    ELSE LET u == Head(usages)
             next == IF content[u] = 0 THEN s
                     ELSE LET v == ItemVariants[content[u]]
                          IN  insert_snapshot_item(s, snapshot, u, v.quantity, v.attributes,
                                    _compute_checksum(v.quantity, v.attributes))
         IN  WithItems(next, snapshot, content, Tail(usages))

DiffStore(content_a, content_b, usages_b) ==
    WithItems(create_snapshot(
                WithItems(create_snapshot(DiffBase, 1, 1), 1, content_a, <<1, 2, 3>>),
                1, 1),
              2, content_b, usages_b)

InitDiff ==
    /\ \E content_a \in SnapshotContents, content_b \in SnapshotContents,
          usages_b \in {<<1, 2, 3>>, <<3, 2, 1>>} :
            db = DiffStore(content_a, content_b, usages_b)
    /\ NoIngest
    /\ NoClients
    /\ NoDiffCall
    /\ NoItems
    /\ NoDeltas

NextDiff ==
    \/ Diff
    \/ ClassifyDiff

SpecDiff == InitDiff /\ [][NextDiff]_vars

\* The usages that have an item in a snapshot of the committed tables.
ItemUsages(snapshot) ==
    {db.snapshot_items[i].bom_item_id :
        i \in {j \in 1..Len(db.snapshot_items) : db.snapshot_items[j].snapshot_id = snapshot}}

ItemOf(snapshot, u) ==
    db.snapshot_items[CHOOSE i \in 1..Len(db.snapshot_items) :
        /\ db.snapshot_items[i].snapshot_id = snapshot
        /\ db.snapshot_items[i].bom_item_id = u]

\* C15: the diff of a snapshot against itself has no added, no removed and
\* no modified item, and counts every item of the snapshot as unchanged.
C15_SelfDiffIsEmpty ==
    (last_diff # NoDiff /\ last_diff.snapshot_a_id = last_diff.snapshot_b_id)
        => /\ last_diff.added_items = {}
           /\ last_diff.removed_items = {}
           /\ last_diff.modified_items = <<>>
           /\ last_diff.unchanged_count = Cardinality(ItemUsages(last_diff.snapshot_a_id))

\* A snapshot with an item for each of the three usages was diffed against
\* itself.
C15_Witness ==
    /\ last_diff # NoDiff
    /\ last_diff.snapshot_a_id = last_diff.snapshot_b_id
    /\ ItemUsages(last_diff.snapshot_a_id) = {1, 2, 3}
    /\ last_diff.unchanged_count = 3

\* The entries of modified_items about usage u.
ModifiedOf(u) ==
    {i \in 1..Len(last_diff.modified_items) : last_diff.modified_items[i].bom_item_id = u}

\* C16: a usage with an item in both snapshots is neither added nor removed
\* and is compared with itself: when its two checksums differ it is the one
\* modified item that carries the changes between its own two items, and
\* when they are equal it is not a modified item.
C16_IdentityMatch ==
    last_diff # NoDiff
        => \A u \in ItemUsages(last_diff.snapshot_a_id) \cap ItemUsages(last_diff.snapshot_b_id) :
            LET a == ItemOf(last_diff.snapshot_a_id, u)
                b == ItemOf(last_diff.snapshot_b_id, u)
            IN  /\ u \notin last_diff.added_items
                /\ u \notin last_diff.removed_items
                /\ a.checksum = b.checksum => ModifiedOf(u) = {}
                /\ (a.checksum # b.checksum /\ diff_snapshot_item(a, b) # {})
                    => /\ Cardinality(ModifiedOf(u)) = 1
                       /\ \A i \in ModifiedOf(u) :
                            last_diff.modified_items[i].changes = diff_snapshot_item(a, b)

\* Usage 1 changed its quantity while usage 2, of the same part, has in
\* snapshot B what usage 1 had in snapshot A: usage 1 is the modified item.
C16_Witness ==
    /\ last_diff # NoDiff
    /\ last_diff.snapshot_a_id = 1 /\ last_diff.snapshot_b_id = 2
    /\ ItemUsages(1) = {1}
    /\ {1, 2} \subseteq ItemUsages(2)
    /\ ItemOf(1, 1).checksum # ItemOf(2, 1).checksum
    /\ ItemOf(1, 1).checksum = ItemOf(2, 2).checksum
    /\ ModifiedOf(1) # {}
    /\ last_diff.added_items = {2}

\* The events of a classification about usage u.
EventsAbout(result, u) == {i \in 1..Len(result.events) : result.events[i].bom_item_id = u}

\* C19: classify_diff returns one event for each added id, each removed id
\* and each modified item of the DiffResult, PART_ADDED for the added and
\* PART_REMOVED for the removed ones, and its counts add up:
\* total_changes = len(events) = added_count + removed_count + modified_count.
C19_OneEventPerDiffUnit ==
    classification # NoClassification
        => LET result == classification[1]
               modified == {last_diff.modified_items[i].bom_item_id :
                                i \in 1..Len(last_diff.modified_items)}
           IN  /\ result.total_changes = Len(result.events)
               /\ result.total_changes
                    = result.added_count + result.removed_count + result.modified_count
               /\ result.added_count = Cardinality(last_diff.added_items)
               /\ result.removed_count = Cardinality(last_diff.removed_items)
               /\ result.modified_count = Len(last_diff.modified_items)
               /\ \A u \in last_diff.added_items :
                    /\ Cardinality(EventsAbout(result, u)) = 1
                    /\ \A i \in EventsAbout(result, u) :
                            result.events[i].event_type = "PART_ADDED"
               /\ \A u \in last_diff.removed_items :
                    /\ Cardinality(EventsAbout(result, u)) = 1
                    /\ \A i \in EventsAbout(result, u) :
                            result.events[i].event_type = "PART_REMOVED"
               /\ \A u \in modified :
                    /\ Cardinality(EventsAbout(result, u)) = Cardinality(ModifiedOf(u))
                    /\ \A i \in EventsAbout(result, u) :
                            result.events[i].event_type \notin {"PART_ADDED", "PART_REMOVED"}
               /\ \A i \in 1..Len(result.events) :
                    result.events[i].bom_item_id
                        \in last_diff.added_items \cup last_diff.removed_items \cup modified

\* A diff with an added, a removed and a modified item was classified into
\* three events.
C19_Witness ==
    /\ classification # NoClassification
    /\ last_diff.added_items # {}
    /\ last_diff.removed_items # {}
    /\ last_diff.modified_items # <<>>
    /\ classification[1].total_changes = 3

(***************************************************************************)
(* diff_snapshots next to ingest_bom_snapshot: the reads of a diff of any  *)
(* two snapshot ids fall between the store calls of the ingestions.        *)
(***************************************************************************)
DiffStep ==
    \/ DiffGetSnapshotItemsA
    \/ DiffGetSnapshotItemsB
    \/ DiffGetBomItemDetails
    \/ DiffFetchSnapshotStateA
    \/ DiffFetchSnapshotStateB
    \/ DiffReturn

NextConcurrent ==
    \/ \E rows \in RowLists(FaultPool, MaxFaultRows) : Call(1, None, Some("A"), rows)
    \/ ReliableStep
    \/ \E snapshot_a_id \in 1..MaxIngest, snapshot_b_id \in 1..MaxIngest :
            DiffCall(snapshot_a_id, snapshot_b_id)
    \/ DiffStep

SpecConcurrent == Init /\ [][NextConcurrent]_vars

\* What a read of a snapshot returned is nothing, or one item for each
\* usage the ingestion that returned this snapshot resolved its rows to, the
\* items the committed tables hold for it.
NoneOrAll(snapshot, read) ==
    \/ read = <<>>
    \/ /\ snapshot \in 1..Len(ingests)
       /\ ingests[snapshot].snapshot_id = snapshot
       /\ BomItemIds(read) = Range(ingests[snapshot].bom_item_mappings)
       /\ Len(read) = Cardinality(BomItemIds(read))
       /\ \A i \in 1..Len(read) :
            \E j \in 1..Len(db.snapshot_items) :
                /\ db.snapshot_items[j].snapshot_id = snapshot
                /\ db.snapshot_items[j].bom_item_id = read[i].bom_item_id
                /\ db.snapshot_items[j].quantity = read[i].quantity
                /\ db.snapshot_items[j].attributes = read[i].attributes
                /\ db.snapshot_items[j].checksum = read[i].checksum

\* C20: each of the four reads a diff_snapshots call makes of a snapshot's
\* items, at any point of a running ingestion, returns no item or all the
\* items of the committed snapshot.
C20_NoPartialSnapshotRead ==
    /\ NoneOrAll(diff_locals.snapshot_a_id, diff_locals.snapshot_items_a)
    /\ NoneOrAll(diff_locals.snapshot_b_id, diff_locals.snapshot_items_b)
    /\ NoneOrAll(diff_locals.snapshot_a_id, diff_locals.state_a)
    /\ NoneOrAll(diff_locals.snapshot_b_id, diff_locals.state_b)

\* A diff of a snapshot against itself read it when one of its two items
\* was written and not committed, and got nothing; it read it again after
\* the commit and got both items.
C20_Witness ==
    /\ diff_pc = "return"
    /\ diff_locals.snapshot_a_id = diff_locals.snapshot_b_id
    /\ diff_locals.uncommitted = 1
    /\ diff_locals.snapshot_items_a = <<>>
    /\ diff_locals.snapshot_items_b = <<>>
    /\ Len(diff_locals.state_a) = 2
    /\ Len(diff_locals.state_b) = 2

(***************************************************************************)
(* diff_snapshots on two snapshots of one assembly with four usages of one *)
(* part, whose items carry checksums some earlier writer stored: the       *)
(* checksum column is any text insert_snapshot_item was given.             *)
(***************************************************************************)
Txt_y == <<"y">>
Txt_z == <<"z">>

StoredBase ==
    create_bom_item(
        create_bom_item(
            create_bom_item(
                create_bom_item(
                    create_part(
                        create_assembly(get_or_create_organization(EmptyStore, 1), 1, "A"),
                        1, Txt_R1, Value(Txt_10k)),
                    1, 1, EmptyMap),
                1, 1, "notes" :> Txt_x),
            1, 1, "notes" :> Txt_y),
        1, 1, "notes" :> Txt_z)

\* The two checksum texts of the stored items.
StoredChecksums ==
    <<_compute_checksum(Some(1), Refdes(Txt_D1)), _compute_checksum(Some(2), Refdes(Txt_D1))>>

\* A stored item: quantity 1 or 2, designator D1, either checksum.
StoredVariants ==
    <<[quantity |-> Some(1), checksum |-> StoredChecksums[1]],
      [quantity |-> Some(1), checksum |-> StoredChecksums[2]],
      [quantity |-> Some(2), checksum |-> StoredChecksums[1]],
      [quantity |-> Some(2), checksum |-> StoredChecksums[2]]>>

\* Snapshot 1 has items of usages 1 and 2, snapshot 2 of usages 2, 3 and 4.
StoredContents ==
    {c \in [1..5 -> 0..4] : c[3] \in 0..1}

RECURSIVE WithStoredItems(_, _, _, _, _)
WithStoredItems(s, snapshot, content, slots, usages) ==
    IF slots = <<>> THEN s
    ELSE LET next == IF content[Head(slots)] = 0 THEN s
                     ELSE LET v == StoredVariants[content[Head(slots)]]
                          IN  insert_snapshot_item(s, snapshot, Head(usages), v.quantity,
                                    Refdes(Txt_D1) @@ ("row_index" :> 0), v.checksum)
         IN  WithStoredItems(next, snapshot, content, Tail(slots), Tail(usages))

StoredStore(content) ==
    WithStoredItems(
        create_snapshot(
            WithStoredItems(create_snapshot(StoredBase, 1, 1), 1, content, <<1, 2>>, <<1, 2>>),
            1, 1),
        2, content, <<3, 4, 5>>, <<2, 3, 4>>)

InitStored ==
    /\ \E content \in StoredContents : db = StoredStore(content)
    /\ NoIngest
    /\ NoClients
    /\ NoDiffCall
    /\ NoItems
    /\ NoDeltas

NextStored ==
    \/ Diff
    \/ ClassifyDiff

SpecStored == InitStored /\ [][NextStored]_vars

\* matched_pairs of the diff_snapshots call that returned last_diff.
MatchedPairs ==
    LET all_bom_item_ids == ItemUsages(last_diff.snapshot_a_id)
                                \cup ItemUsages(last_diff.snapshot_b_id)
        bom_item_details == get_bom_item_details(db, all_bom_item_ids)
    IN  MatchItems(fetch_snapshot_state(db, last_diff.snapshot_a_id, bom_item_details),
                   fetch_snapshot_state(db, last_diff.snapshot_b_id, bom_item_details)).pairs

\* C21: the matching of a diff_snapshots call is one-to-one: no item of
\* snapshot A and no item of snapshot B is in two matched pairs, whatever
\* checksums the items were stored with.
C21_MatchingOneToOne ==
    last_diff # NoDiff
        => \A i \in 1..Len(MatchedPairs), j \in 1..Len(MatchedPairs) :
            i # j => /\ MatchedPairs[i][1] # MatchedPairs[j][1]
                     /\ MatchedPairs[i][2] # MatchedPairs[j][2]

\* The items of a snapshot in the committed tables.
StoredItemsOf(snapshot) ==
    {ItemOf(snapshot, u) : u \in ItemUsages(snapshot)}

\* Every item of both snapshots of last_diff carries the checksum
\* _compute_checksum gives for its quantity and attributes.
ChecksumsComputed ==
    \A item \in StoredItemsOf(last_diff.snapshot_a_id) \cup StoredItemsOf(last_diff.snapshot_b_id) :
        item.checksum = _compute_checksum(item.quantity, item.attributes)

\* C22: when the checksums of both snapshots were computed by
\* _compute_checksum, every item of A is removed, modified or unchanged and
\* every item of B is added, modified or unchanged, each counted once, and
\* every matched pair is a modified item or counted as unchanged.
C22_DiffAccounting ==
    (last_diff # NoDiff /\ ChecksumsComputed)
        => /\ Cardinality(last_diff.removed_items) + Len(last_diff.modified_items)
                + last_diff.unchanged_count
                    = Cardinality(ItemUsages(last_diff.snapshot_a_id))
           /\ Cardinality(last_diff.added_items) + Len(last_diff.modified_items)
                + last_diff.unchanged_count
                    = Cardinality(ItemUsages(last_diff.snapshot_b_id))
           /\ Len(MatchedPairs) = Len(last_diff.modified_items) + last_diff.unchanged_count

\* Two snapshots with computed checksums, two items in A and three in B,
\* were diffed into one added, one modified and one unchanged item.
C22_Witness ==
    /\ last_diff # NoDiff
    /\ ChecksumsComputed
    /\ last_diff.snapshot_a_id = 1 /\ last_diff.snapshot_b_id = 2
    /\ Cardinality(ItemUsages(1)) = 2
    /\ Cardinality(ItemUsages(2)) = 3
    /\ Cardinality(last_diff.added_items) = 1
    /\ Len(last_diff.modified_items) = 1
    /\ last_diff.unchanged_count = 1

\* The part of a usage: bom_items.part_id.
PartOfUsage(u) == db.bom_items[u].part_id

\* C23: after diff_snapshots no part has one of its items in removed_items
\* and another in added_items.
C23_NoRemoveAddOfOnePart ==
    last_diff # NoDiff
        => \A u \in last_diff.removed_items, v \in last_diff.added_items :
                PartOfUsage(u) # PartOfUsage(v)

\* Snapshot A has an item of usage 1 only and snapshot B an item of usage 2
\* only, of the same part, with another quantity: the diff reports one
\* modified item and nothing removed or added.
C23_Witness ==
    /\ last_diff # NoDiff
    /\ last_diff.snapshot_a_id = 1 /\ last_diff.snapshot_b_id = 2
    /\ ItemUsages(1) = {1}
    /\ ItemUsages(2) = {2}
    /\ ItemOf(1, 1).quantity # ItemOf(2, 2).quantity
    /\ Len(last_diff.modified_items) = 1
    /\ last_diff.removed_items = {}
    /\ last_diff.added_items = {}

\* C24: the two items of a matched pair are of the same usage or of the
\* same part (a shared semantic key includes the part); an item of A with no
\* item of its part in B is removed, an item of B with no item of its part
\* in A is added, and neither is a modified item.
C24_PairsShareUsageOrPart ==
    last_diff # NoDiff
        => /\ \A i \in 1..Len(MatchedPairs) :
                \/ MatchedPairs[i][1] = MatchedPairs[i][2]
                \/ PartOfUsage(MatchedPairs[i][1]) = PartOfUsage(MatchedPairs[i][2])
           /\ \A u \in ItemUsages(last_diff.snapshot_a_id) :
                (\A v \in ItemUsages(last_diff.snapshot_b_id) : PartOfUsage(v) # PartOfUsage(u))
                    => u \in last_diff.removed_items
           /\ \A v \in ItemUsages(last_diff.snapshot_b_id) :
                (\A u \in ItemUsages(last_diff.snapshot_a_id) : PartOfUsage(u) # PartOfUsage(v))
                    => /\ v \in last_diff.added_items
                       /\ ModifiedOf(v) = {}

\* Snapshot A has an item of usage 1 only, snapshot B an item of usage 3
\* only, of another part: the diff reports usage 1 removed and usage 3
\* added.
C24_Witness ==
    /\ last_diff # NoDiff
    /\ last_diff.snapshot_a_id = 1 /\ last_diff.snapshot_b_id = 2
    /\ ItemUsages(1) = {1}
    /\ ItemUsages(2) = {3}
    /\ PartOfUsage(1) # PartOfUsage(3)
    /\ last_diff.removed_items = {1}
    /\ last_diff.added_items = {3}
    /\ last_diff.modified_items = <<>>

(***************************************************************************)
(* SpecAssemblies: ingestions for two organizations into assemblies of two *)
(* names, on a store that does not fail.                                   *)
(***************************************************************************)
NextAssemblies ==
    \/ \E org \in OrgIds, aname \in {"A", "B"}, rows \in RowLists(FaultPool, MaxFaultRows) :
            Call(org, None, Some(aname), rows)
    \/ ReliableStep

SpecAssemblies == Init /\ [][NextAssemblies]_vars

\* C29: the snapshot of every ingestion that returned is of the assembly
\* the call resolved, which is of the organization the call was made for;
\* each of its items, and the usage each row was resolved to, is a usage of
\* that assembly and of a part of that organization; and while a call runs,
\* the usage the last row was resolved to is of the call's assembly and of
\* the part that row was resolved to.
C29_UsagesOfOwnAssembly ==
    /\ \A k \in 1..Len(ingests) :
        LET r == ingests[k]
        IN  /\ db.snapshots[r.snapshot_id].assembly_id = r.assembly_id
            /\ db.snapshots[r.snapshot_id].org_id = r.org_id
            /\ db.assemblies[r.assembly_id].org_id = r.org_id
            /\ \A u \in UsagesOf(db, r.snapshot_id) \cup Range(r.bom_item_mappings) :
                /\ db.bom_items[u].assembly_id = r.assembly_id
                /\ db.parts[db.bom_items[u].part_id].org_id = r.org_id
    /\ (pc \in {"find_similar_parts", "create_part", "create_snapshot"}
            /\ bom_item_mappings # <<>>)
        => LET u == bom_item_mappings[Len(bom_item_mappings)]
           IN  /\ tx.bom_items[u].assembly_id = assembly_id
               /\ tx.bom_items[u].part_id = part_id
               /\ tx.parts[part_id].org_id = org_id
               /\ tx.assemblies[assembly_id].org_id = org_id

\* Two ingestions of the same rows for one organization into two assemblies
\* returned: the rows resolved to the same part and to a usage per assembly.
C29_Witness ==
    /\ Len(ingests) = 2
    /\ ingests[1].org_id = ingests[2].org_id
    /\ ingests[1].assembly_id # ingests[2].assembly_id
    /\ ingests[1].rows = ingests[2].rows
    /\ LET u1 == ingests[1].bom_item_mappings[1]
           u2 == ingests[2].bom_item_mappings[1]
       IN  /\ u1 # u2
           /\ db.bom_items[u1].part_id = db.bom_items[u2].part_id

(***************************************************************************)
(* SpecClients: two ingest_bom_snapshot calls, each on a SupabaseClient of *)
(* its own, with the same rows for the same assembly, their store calls    *)
(* in any interleaving. psycopg2 opens its transactions at PostgreSQL's    *)
(* default level, read committed: a statement sees the rows committed      *)
(* before it and the rows its own transaction wrote.                       *)
(***************************************************************************)
\* The rows of a table that client c cannot see: written by the other
\* client's transaction and not committed.
Hidden(c, table) == UNION {clients[d].written[table] : d \in Clients \ {c}}

\* A table with the hidden rows blanked: their ids stay taken, and no WHERE
\* clause of the store matches them.
Masked(rows, hidden, blank) ==
    [i \in 1..Len(rows) |-> IF i \in hidden THEN blank ELSE rows[i]]

\* What the statements of client c read.
ClientView(c) ==
    [organizations |-> shared.organizations \ Hidden(c, "organizations"),
     assemblies |-> Masked(shared.assemblies, Hidden(c, "assemblies"),
                           [org_id |-> 0, name |-> ""]),
     parts |-> Masked(shared.parts, Hidden(c, "parts"),
                      [org_id |-> 0, name |-> <<>>, attributes |-> EmptyMap]),
     bom_items |-> Masked(shared.bom_items, Hidden(c, "bom_items"),
                          [assembly_id |-> 0, part_id |-> 0, context |-> EmptyMap]),
     snapshots |-> Masked(shared.snapshots, Hidden(c, "snapshots"),
                          [org_id |-> 0, assembly_id |-> 0]),
     snapshot_items |-> Masked(shared.snapshot_items, Hidden(c, "snapshot_items"),
                               [snapshot_id |-> 0, bom_item_id |-> 0, quantity |-> None,
                                attributes |-> EmptyMap,
                                checksum |-> _compute_checksum(None, EmptyMap)])]

\* The client's record after the row it is at got its usage.
ClientRowResolved(p, bom_item_id) ==
    [p EXCEPT !.bom_item_mappings = Append(@, bom_item_id),
              !.row_i = IF p.row_i < Len(p.rows) THEN p.row_i + 1 ELSE p.row_i,
              !.pc = IF p.row_i < Len(p.rows) THEN "find_similar_parts"
                     ELSE "create_snapshot"]

rest_vars == <<db, ingest_vars, last_diff, classification, pure_vars, diff_vars>>

ClientBeginTransaction(c) ==
    /\ clients[c].pc = "begin_transaction"
    /\ clients' = [clients EXCEPT ![c].pc = "get_or_create_organization"]
    /\ UNCHANGED <<shared, rest_vars>>

\* The INSERT of an id another transaction has inserted and not committed
\* waits for that transaction.
ClientGetOrCreateOrganization(c) ==
    /\ clients[c].pc = "get_or_create_organization"
    /\ LET p == clients[c]
       IN  IF p.org_id \in ClientView(c).organizations
           THEN /\ clients' = [clients EXCEPT ![c].pc = "get_or_create_assembly"]
                /\ shared' = shared
           ELSE /\ p.org_id \notin shared.organizations
                /\ shared' = get_or_create_organization(shared, p.org_id)
                /\ clients' = [clients EXCEPT
                                ![c].pc = "get_or_create_assembly",
                                ![c].written.organizations = @ \cup {p.org_id}]
    /\ UNCHANGED rest_vars

ClientGetOrCreateAssembly(c) ==
    /\ clients[c].pc = "get_or_create_assembly"
    /\ LET p == clients[c]
           hits == AssemblyByName(ClientView(c), p.org_id, p.assembly_name)
       IN  IF hits # {}
           THEN /\ \E a \in hits :
                    clients' = [clients EXCEPT ![c].pc = "find_similar_parts",
                                               ![c].assembly_id = a,
                                               ![c].row_i = 1]
                /\ shared' = shared
           ELSE /\ shared' = create_assembly(shared, p.org_id, p.assembly_name)
                /\ clients' = [clients EXCEPT
                                ![c].pc = "find_similar_parts",
                                ![c].assembly_id = Len(shared.assemblies) + 1,
                                ![c].row_i = 1,
                                ![c].written.assemblies = @ \cup {Len(shared.assemblies) + 1}]
    /\ UNCHANGED rest_vars

ClientFindSimilarParts(c) ==
    /\ clients[c].pc = "find_similar_parts"
    /\ LET p == clients[c]
           row == p.rows[p.row_i]
           similar_parts == find_similar_parts(ClientView(c), p.org_id, row.part_name,
                                               _extract_part_attributes(row), <<8, 10>>)
       IN  IF similar_parts # {}
           THEN \E best_match_id \in similar_parts :
                    clients' = [clients EXCEPT ![c].pc = "find_similar_bom_items",
                                               ![c].part_id = best_match_id]
           ELSE clients' = [clients EXCEPT ![c].pc = "create_part"]
    /\ UNCHANGED <<shared, rest_vars>>

ClientCreatePart(c) ==
    /\ clients[c].pc = "create_part"
    /\ LET p == clients[c]
           row == p.rows[p.row_i]
       IN  /\ shared' = create_part(shared, p.org_id, row.part_name,
                                    _extract_part_attributes(row))
           /\ clients' = [clients EXCEPT
                            ![c].pc = "find_similar_bom_items",
                            ![c].part_id = Len(shared.parts) + 1,
                            ![c].written.parts = @ \cup {Len(shared.parts) + 1}]
    /\ UNCHANGED rest_vars

ClientFindSimilarBomItems(c) ==
    /\ clients[c].pc = "find_similar_bom_items"
    /\ LET p == clients[c]
           row == p.rows[p.row_i]
           similar_items == find_similar_bom_items(ClientView(c), p.assembly_id, p.part_id,
                                                   _extract_bom_item_context(row), <<7, 10>>)
       IN  IF similar_items # {}
           THEN \E best_match_id \in similar_items :
                    clients' = [clients EXCEPT ![c] = ClientRowResolved(p, best_match_id)]
           ELSE clients' = [clients EXCEPT ![c].pc = "create_bom_item"]
    /\ UNCHANGED <<shared, rest_vars>>

ClientCreateBomItem(c) ==
    /\ clients[c].pc = "create_bom_item"
    /\ LET p == clients[c]
           row == p.rows[p.row_i]
           bom_item_id == Len(shared.bom_items) + 1
       IN  /\ shared' = create_bom_item(shared, p.assembly_id, p.part_id,
                                        _extract_bom_item_context(row))
           /\ clients' = [clients EXCEPT
                            ![c] = [ClientRowResolved(p, bom_item_id) EXCEPT
                                        !.written.bom_items = @ \cup {bom_item_id}]]
    /\ UNCHANGED rest_vars

ClientCreateSnapshot(c) ==
    /\ clients[c].pc = "create_snapshot"
    /\ LET p == clients[c]
       IN  /\ shared' = create_snapshot(shared, p.org_id, p.assembly_id)
           /\ clients' = [clients EXCEPT
                            ![c].pc = "insert_snapshot_item",
                            ![c].snapshot_id = Len(shared.snapshots) + 1,
                            ![c].todo = Aggregate(p.bom_item_mappings, p.rows, Len(p.rows)),
                            ![c].written.snapshots = @ \cup {Len(shared.snapshots) + 1}]
    /\ UNCHANGED rest_vars

ClientInsertSnapshotItem(c) ==
    /\ clients[c].pc = "insert_snapshot_item"
    /\ LET p == clients[c]
           aggregated == Head(p.todo)
           quantity == FinalQuantity(aggregated)
           checksum == _compute_checksum(quantity, aggregated.attributes)
       IN  /\ shared' = insert_snapshot_item(shared, p.snapshot_id, aggregated.bom_item_id,
                                             quantity, aggregated.attributes, checksum)
           /\ clients' = [clients EXCEPT
                            ![c].pc = IF Tail(p.todo) = <<>> THEN "commit_transaction"
                                      ELSE "insert_snapshot_item",
                            ![c].todo = Tail(p.todo),
                            ![c].written.snapshot_items =
                                @ \cup SelectSeq2(shared'.snapshot_items, p.snapshot_id,
                                                  aggregated.bom_item_id)]
    /\ UNCHANGED rest_vars

\* conn.commit() and "return snapshot_id": the rows the transaction wrote are
\* committed.
ClientCommitTransaction(c) ==
    /\ clients[c].pc = "commit_transaction"
    /\ clients' = [clients EXCEPT ![c].pc = "returned", ![c].written = NoWrites]
    /\ UNCHANGED <<shared, rest_vars>>

ClientStep(c) ==
    \/ ClientBeginTransaction(c)
    \/ ClientGetOrCreateOrganization(c)
    \/ ClientGetOrCreateAssembly(c)
    \/ ClientFindSimilarParts(c)
    \/ ClientCreatePart(c)
    \/ ClientFindSimilarBomItems(c)
    \/ ClientCreateBomItem(c)
    \/ ClientCreateSnapshot(c)
    \/ ClientInsertSnapshotItem(c)
    \/ ClientCommitTransaction(c)

\* The committed tables the two calls start on: organization 1 alone, with
\* its assembly "A", or with the parts and usages of both rows of FaultPool
\* as well.
ClientBases ==
    LET organization == get_or_create_organization(EmptyStore, 1)
        assembly == create_assembly(organization, 1, "A")
    IN  {organization, assembly,
         create_bom_item(
            create_bom_item(
                create_part(create_part(assembly, 1, Txt_R1, Value(Txt_10k)),
                            1, Txt_R1, Value(Txt_22k)),
                1, 1, EmptyMap),
            1, 2, EmptyMap)}

InitClients ==
    /\ db = EmptyStore
    /\ NoIngest
    /\ NoDiffCall
    /\ NoItems
    /\ NoDeltas
    /\ shared \in ClientBases
    /\ \E rows \in RowLists(FaultPool, MaxFaultRows) \ {<<>>} :
            clients = [c \in Clients |->
                        [NoClient EXCEPT !.pc = "begin_transaction", !.rows = rows,
                                         !.org_id = 1, !.assembly_name = "A"]]

NextClients == \E c \in Clients : ClientStep(c)

SpecClients == InitClients /\ [][NextClients]_vars

\* Two rows of a table that are the same identity.
DuplicateParts ==
    {pq \in (1..Len(shared.parts)) \X (1..Len(shared.parts)) :
        pq[1] < pq[2] /\ shared.parts[pq[1]] = shared.parts[pq[2]]}

DuplicateUsages ==
    {uw \in (1..Len(shared.bom_items)) \X (1..Len(shared.bom_items)) :
        uw[1] < uw[2] /\ shared.bom_items[uw[1]] = shared.bom_items[uw[2]]}

\* C30: when both calls have returned, no two parts have the same
\* organization, name and attributes, no two usages have the same assembly,
\* part and context, and the rows of both calls were resolved to the same
\* usages.
C30_NoDuplicateIdentities ==
    (\A c \in Clients : clients[c].pc = "returned")
        => /\ DuplicateParts = {}
           /\ DuplicateUsages = {}
           /\ clients[1].bom_item_mappings = clients[2].bom_item_mappings

====
